---- MODULE Spec2Model ----
(***************************************************************************)
(* Greenhouse telemetry pipeline (src-tauri/src):                          *)
(*   subscriber -> decoder -> NodeAggregator -> {GreenhouseAggregator,     *)
(*   StorageWriter},  GreenhouseAggregator -> StorageWriter.               *)
(*                                                                         *)
(* One set of variables holds the state of every task.  Each stage has a   *)
(* specification of its own (SpecDecode, SpecNode, SpecGh, SpecStore) in   *)
(* which the stage's handlers run against its inbound channel; the other   *)
(* stages' variables stay at their initial values.                         *)
(*                                                                         *)
(* Numbers.  A decoded f32 is kept as its IEEE-754 bit fields              *)
(* [sign, exp, mant]; `as f64` turns it into an exact rational or a        *)
(* non-finite tag.  A mean (Option<f32> of NodeAvg / GhAvg) is kept as the *)
(* exact reduced rational of sum / count: the rounding of the f64 quotient *)
(* to f32 is not modelled.  Instants are whole seconds on the monotonic    *)
(* clock `now`.                                                            *)
(***************************************************************************)
EXTENDS Integers, Sequences, FiniteSets, TLC

VARIABLES
    now,                \* monotonic clock (tokio Instant), seconds
    sub_pc,             \* run_debug_subscriber: "connect" | "poll" | "sleep"
    backoff_ms,         \* run_debug_subscriber: backoff_ms
    rx_decoded,         \* mpsc channel subscriber -> NodeAggregator (FIFO)
    lastPublish,        \* what the last Publish event did (history)
    sleepLog,           \* the backoff sleeps completed so far and the last one (history)
    nodes,              \* run_rolling_avg: HashMap<(u16,u16), NodeWindow>
    nodeNextTick,       \* run_rolling_avg: deadline of the next interval tick
    rx_nodeavg_for_db,  \* mpsc channel NodeAggregator -> StorageWriter
    rx_nodeavg_for_gh,  \* mpsc channel NodeAggregator -> GreenhouseAggregator
    nodeTickLog,        \* what the last NodeAggregator tick did, and how many samples
                        \* each key was handed since (history)
    gh,                 \* run_greenhouse_avg: HashMap<u16, GHState>
    ghNextTick,         \* run_greenhouse_avg: deadline of the next interval tick
    rx_ghavg_for_db,    \* mpsc channel GreenhouseAggregator -> StorageWriter
    ghTickLog,          \* what the last GreenhouseAggregator tick did, and at how many
                        \* ticks each stored NodeAvg was counted (history)
    batch_nodes,        \* run_storage: Vec<NodeAvg> buffer
    batch_gh,           \* run_storage: Vec<GhAvg> buffer
    store_pc,           \* run_storage: "init" | "select" | "flushing" | "exited"
    flushing,           \* the batch handed to the flush_batch in progress
    storeNextTick,      \* run_storage: deadline of the flush timer's next tick
    storeLog,           \* what the StorageWriter did last (history)
    db,                 \* the committed tables of the SQLite file
    flushLog,           \* what the last flush_batch met (history)
    envSent,            \* snapshots the upstream stages have offered so far (history)
    stalled             \* the task that stops making progress in this run, or "none"

vars == << now, sub_pc, backoff_ms, rx_decoded, lastPublish, sleepLog,
           nodes, nodeNextTick, rx_nodeavg_for_db, rx_nodeavg_for_gh, nodeTickLog,
           gh, ghNextTick, rx_ghavg_for_db, ghTickLog,
           batch_nodes, batch_gh, store_pc, flushing, storeNextTick, storeLog,
           db, flushLog, envSent, stalled >>

subVars   == << sub_pc, backoff_ms, lastPublish, sleepLog >>
nodeVars  == << nodes, nodeNextTick, nodeTickLog >>
ghVars    == << gh, ghNextTick, ghTickLog >>
storeVars == << batch_nodes, batch_gh, store_pc, flushing, storeNextTick, storeLog,
               db, flushLog >>

-----------------------------------------------------------------------------
(* Option<T> *)

None == [some |-> FALSE]

Some(v) == [some |-> TRUE, val |-> v]

IsSome(o) == o.some

Min(a, b) == IF a <= b THEN a ELSE b

SeqToSet(s) == { s[i] : i \in 1..Len(s) }

-----------------------------------------------------------------------------
(* tokio::sync::mpsc bounded channel *)

\* main.rs: mpsc::channel(256) for decoded samples
DECODED_CAP == 256

\* main.rs: mpsc::channel::<NodeAvg>(128), to the greenhouse aggregator and to storage
NODEAVG_CAP == 128

\* main.rs: mpsc::channel::<GhAvg>(64)
GHAVG_CAP == 64

\* A plausible slip: a full queue makes room by evicting its oldest message.
try_send_evict_oldest(ch, cap, msg) ==
    IF Len(ch) < cap THEN Append(ch, msg) ELSE Append(Tail(ch), msg)

\* Sender::try_send: enqueue at the back when there is room, else drop the message.
try_send(ch, cap, msg) == IF Len(ch) < cap THEN Append(ch, msg) ELSE ch

\* A plausible slip: `send(..).await`, which waits for room in the queue.
try_send_ready_when_room(ch, cap) == Len(ch) < cap

\* Sender::try_send is not async: the caller goes on at once whatever the queue holds.
try_send_ready(ch, cap) == TRUE

\* run_storage has returned: the receivers of its two channels are dropped.
StorageGone == store_pc = "exited"

\* A plausible slip: a channel whose receiver is gone still queues messages.
try_send_db_unclosed(ch, cap, msg) == try_send(ch, cap, msg)

\* try_send on a channel of the StorageWriter: Err(Closed) once the receiver is
\* dropped, else as above; the callers discard the result (`let _ =`).
try_send_db(ch, cap, msg) == IF StorageGone THEN ch ELSE try_send(ch, cap, msg)

-----------------------------------------------------------------------------
(* decoder.rs *)

OUTDOOR_NODE_ID == 65001

\* f32::from_le_bytes([a, a1, a2, a3]): the IEEE-754 single whose bits are
\* a3 a2 a1 a, most significant byte first.
f32_from_le_bytes(a, a1, a2, a3) ==
    [ sign |-> a3 \div 128,
      exp  |-> (a3 % 128) * 2 + (a2 \div 128),
      mant |-> (a2 % 128) * 65536 + a1 * 256 + a ]

\* A plausible slip: the two bytes read most significant first.
u16_from_be_bytes(s0, s1) == 256 * s0 + s1

\* u16::from_le_bytes([s0, s1])
u16_from_le_bytes(s0, s1) == s0 + 256 * s1

\* rd_u16_le(b, o): b.get(o..o+2), a range-checked slice.  `reads` are the
\* 0-based indices of b the call dereferences.
rd_u16_le(b, o) ==
    IF o + 2 <= Len(b)
    THEN [ val |-> Some(u16_from_le_bytes(b[o + 1], b[o + 2])), reads |-> {o, o + 1} ]
    ELSE [ val |-> None, reads |-> {} ]

\* rd_f32_le(b, o): four b.get(i)?, each bounds-checked; the first miss returns None.
rd_f32_le(b, o) ==
    IF o + 4 <= Len(b)
    THEN [ val |-> Some(f32_from_le_bytes(b[o + 1], b[o + 2], b[o + 3], b[o + 4])),
           reads |-> o .. (o + 3) ]
    ELSE [ val |-> None, reads |-> { i \in o .. (o + 3) : i < Len(b) } ]

\* The fields the Standard arm reads, in order, with their wire types.
StandardLayout ==
    << <<"greenhouse_id", "u16">>, <<"node_id", "u16">>,
       <<"air_temp_c", "f32">>, <<"leaf_temp_c", "f32">>, <<"bag_temp_c", "f32">>,
       <<"air_rh_pct", "f32">>,
       <<"bag_rh1_pct", "f32">>, <<"bag_rh2_pct", "f32">>, <<"bag_rh3_pct", "f32">>,
       <<"bag_rh4_pct", "f32">>, <<"bag_rh_avg_pct", "f32">>,
       <<"par_value", "u16">>, <<"weight_g", "u16">>,
       <<"ea_air_kpa", "f32">>, <<"ea_leaf_kpa", "f32">>, <<"es_kpa", "f32">>,
       <<"vpd_kpa", "f32">> >>

\* The fields the Outdoor arm reads, in order, with their wire types.
OutdoorLayout ==
    << <<"greenhouse_id", "u16">>, <<"node_id", "u16">>,
       <<"air_temp_c", "f32">>, <<"air_rh_pct", "f32">>,
       <<"par_value", "u16">>,
       <<"ea_air_kpa", "f32">>, <<"es_kpa", "f32">> >>

\* One arm of decode_payload: read the layout's fields from offset o on
\* (`let x = rd(p, o)?; o += size`), returning None at the first failed read.
RECURSIVE DecodeArm(_, _, _, _, _, _, _)
DecodeArm(p, variant, layout, i, o, acc, reads) ==
    IF i > Len(layout)
    THEN [ res |-> Some([variant |-> variant, f |-> acc]), reads |-> reads ]
    ELSE LET name == layout[i][1]
             ty   == layout[i][2]
             r    == IF ty = "u16" THEN rd_u16_le(p, o) ELSE rd_f32_le(p, o)
             size == IF ty = "u16" THEN 2 ELSE 4
         IN  IF ~IsSome(r.val)
             THEN [ res |-> None, reads |-> reads \cup r.reads ]
             ELSE DecodeArm(p, variant, layout, i + 1, o + size,
                            acc @@ (name :> r.val.val), reads \cup r.reads)

\* A plausible slip: accept any payload at least as long as the layout.
decode_payload_at_least(p) ==
    IF Len(p) >= 60 THEN DecodeArm(p, "Standard", StandardLayout, 1, 0, <<>>, {})
    ELSE IF Len(p) >= 22 THEN DecodeArm(p, "Outdoor", OutdoorLayout, 1, 0, <<>>, {})
    ELSE [ res |-> None, reads |-> {} ]

\* A plausible slip: the two arms' layouts exchanged.
decode_payload_swapped(p) ==
    IF Len(p) = 60 THEN DecodeArm(p, "Outdoor", OutdoorLayout, 1, 0, <<>>, {})
    ELSE IF Len(p) = 22 THEN DecodeArm(p, "Standard", StandardLayout, 1, 0, <<>>, {})
    ELSE [ res |-> None, reads |-> {} ]

\* decode_payload: `match p.len() { 60 => Standard, 22 => Outdoor, _ => None }`.
decode_payload(p) ==
    IF Len(p) = 60 THEN DecodeArm(p, "Standard", StandardLayout, 1, 0, <<>>, {})
    ELSE IF Len(p) = 22 THEN DecodeArm(p, "Outdoor", OutdoorLayout, 1, 0, <<>>, {})
    ELSE [ res |-> None, reads |-> {} ]

-----------------------------------------------------------------------------
(* Payloads the broker delivers in the model *)

MaxPayloadLen == 61

PayloadGhIds == {1}

PayloadNodeIds == {1, OUTDOOR_NODE_ID}

\* Byte i (0-based) of a payload addressed (g, n): the ids little-endian at 0 and 2,
\* then a fixed pattern.
PayloadByte(i, g, n) ==
    CASE i = 0 -> g % 256
      [] i = 1 -> g \div 256
      [] i = 2 -> n % 256
      [] i = 3 -> n \div 256
      [] OTHER -> (7 * i + 3) % 256

MkPayload(len, g, n) == [ i \in 1..len |-> PayloadByte(i - 1, g, n) ]

Payloads ==
    { MkPayload(len, g, n) : len \in 0..MaxPayloadLen, g \in PayloadGhIds, n \in PayloadNodeIds }

-----------------------------------------------------------------------------
(* subscriber.rs: run_debug_subscriber *)

BACKOFF_INIT_MS == 250

BACKOFF_MAX_MS == 10000

\* The broker delivers at most this many payloads in a run of the model.
MaxPublished == 2

NoPublish == [ n |-> 0 ]

\* The transport fails at most this many times in a run of the model.
MaxWaits == 8

\* A plausible slip: the backoff reset once a subscribe succeeds.
SubscribeOk_reset ==
    /\ sub_pc = "connect"
    /\ sub_pc' = "poll"
    /\ backoff_ms' = BACKOFF_INIT_MS
    /\ UNCHANGED << now, sleepLog, lastPublish, rx_decoded, nodeVars,
                    rx_nodeavg_for_db, rx_nodeavg_for_gh, ghVars, rx_ghavg_for_db, storeVars, envSent, stalled >>

\* client.subscribe(..) returned Ok: enter the poll loop.
SubscribeOk ==
    /\ sub_pc = "connect"
    /\ sub_pc' = "poll"
    /\ UNCHANGED << now, backoff_ms, sleepLog, lastPublish, rx_decoded, nodeVars,
                    rx_nodeavg_for_db, rx_nodeavg_for_gh, ghVars, rx_ghavg_for_db, storeVars, envSent, stalled >>

\* client.subscribe(..) returned Err: sleep the backoff, then `continue`.
SubscribeErr ==
    /\ sub_pc = "connect"
    /\ sleepLog.k < MaxWaits
    /\ sub_pc' = "sleep"
    /\ UNCHANGED << now, backoff_ms, sleepLog, lastPublish, rx_decoded, nodeVars,
                    rx_nodeavg_for_db, rx_nodeavg_for_gh, ghVars, rx_ghavg_for_db, storeVars, envSent, stalled >>

\* A plausible slip: forward a default sample when decoding fails.
ForwardDecoded_always(ch, d) ==
    try_send(ch, DECODED_CAP, IF IsSome(d) THEN d.val ELSE [variant |-> "Standard", f |-> <<>>])

\* `if let Some(decoded) = decode_payload(..) { let _ = tx.try_send(decoded); } else { eprintln }`
ForwardDecoded(ch, d) ==
    IF IsSome(d) THEN try_send(ch, DECODED_CAP, d.val) ELSE ch

\* eventloop.poll() returned Ok(Event::Incoming(Packet::Publish(p))), the broker
\* delivering at most `limit` payloads in a run.
PollPublishUpTo(p, limit) ==
    /\ sub_pc = "poll"
    /\ lastPublish.n < limit
    /\ try_send_ready(rx_decoded, DECODED_CAP)
    /\ sub_pc' = "poll"
    /\ LET d == decode_payload(p)
       IN  /\ rx_decoded' = ForwardDecoded(rx_decoded, d.res)
           /\ lastPublish' = [ n |-> lastPublish.n + 1, payload |-> p, res |-> d.res, reads |-> d.reads,
                               before |-> rx_decoded, pc |-> sub_pc' ]
    /\ UNCHANGED << now, backoff_ms, sleepLog, nodeVars,
                    rx_nodeavg_for_db, rx_nodeavg_for_gh, ghVars, rx_ghavg_for_db, storeVars, envSent, stalled >>

PollPublish(p) == PollPublishUpTo(p, MaxPublished)

\* eventloop.poll() returned any other Ok(Event::Incoming(_)) or Ok(Event::Outgoing(_)).
PollOther ==
    /\ sub_pc = "poll"
    /\ sub_pc' = "poll"
    /\ UNCHANGED << now, backoff_ms, sleepLog, lastPublish, rx_decoded, nodeVars,
                    rx_nodeavg_for_db, rx_nodeavg_for_gh, ghVars, rx_ghavg_for_db, storeVars, envSent, stalled >>

\* eventloop.poll() returned Err: break out of the poll loop to the backoff sleep.
PollErr ==
    /\ sub_pc = "poll"
    /\ sleepLog.k < MaxWaits
    /\ sub_pc' = "sleep"
    /\ UNCHANGED << now, backoff_ms, sleepLog, lastPublish, rx_decoded, nodeVars,
                    rx_nodeavg_for_db, rx_nodeavg_for_gh, ghVars, rx_ghavg_for_db, storeVars, envSent, stalled >>

\* A plausible slip: the doubling left uncapped.
NextBackoff_uncapped(b) == b * 2

\* backoff_ms = (backoff_ms * 2).min(10_000)
NextBackoff(b) == Min(b * 2, BACKOFF_MAX_MS)

\* sleep(backoff_ms) elapsed: double the backoff and reconnect.
SleepDone ==
    /\ sub_pc = "sleep"
    /\ backoff_ms' = NextBackoff(backoff_ms)
    /\ sleepLog' = [ k |-> sleepLog.k + 1, ms |-> backoff_ms ]
    /\ sub_pc' = "connect"
    /\ UNCHANGED << now, lastPublish, rx_decoded, nodeVars,
                    rx_nodeavg_for_db, rx_nodeavg_for_gh, ghVars, rx_ghavg_for_db, storeVars, envSent, stalled >>

-----------------------------------------------------------------------------
(* Exact arithmetic for f32 / f64 values *)

Abs(x) == IF x < 0 THEN -x ELSE x

RECURSIVE Gcd(_, _)
Gcd(a, b) == IF b = 0 THEN a ELSE Gcd(b, a % b)

RECURSIVE Pow2(_)
Pow2(k) == IF k = 0 THEN 1 ELSE 2 * Pow2(k - 1)

\* floor(log2(n)) for n >= 1
RECURSIVE Log2(_)
Log2(n) == IF n <= 1 THEN 0 ELSE 1 + Log2(n \div 2)

\* The rational n / d (d > 0) in lowest terms.
Rat(n, d) ==
    LET g == Gcd(Abs(n), d)
    IN  [ num |-> n \div g, den |-> d \div g ]

RatZero == [ num |-> 0, den |-> 1 ]

RatAdd(a, b) == Rat(a.num * b.den + b.num * a.den, a.den * b.den)

RatDivInt(a, k) == Rat(a.num, a.den * k)

RatLess(a, b) == a.num * b.den < b.num * a.den

\* `v as f64` for an f32 v = [sign, exp, mant]: exact.  exp = 255 is an infinity
\* or a NaN; otherwise (-1)^sign * (2^23 + mant) * 2^(exp - 150), and zero for
\* exp = 0, mant = 0.  (Subnormals do not occur in the model's samples.)
f32_as_f64(v) ==
    IF v.exp = 255 THEN [ finite |-> FALSE ]
    ELSE IF v.exp = 0 THEN [ finite |-> TRUE, val |-> RatZero ]
    ELSE LET m == (IF v.sign = 1 THEN -1 ELSE 1) * (8388608 + v.mant)
         IN  [ finite |-> TRUE,
               val |-> IF v.exp >= 150 THEN Rat(m * Pow2(v.exp - 150), 1)
                       ELSE Rat(m, Pow2(150 - v.exp)) ]

\* `n as f32` for a u16 n: exact, a u16 has at most 16 significant bits.
u16_as_f32(n) ==
    IF n = 0 THEN [ sign |-> 0, exp |-> 0, mant |-> 0 ]
    ELSE LET e == Log2(n)
         IN  [ sign |-> 0, exp |-> 127 + e, mant |-> (n - Pow2(e)) * Pow2(23 - e) ]

-----------------------------------------------------------------------------
(* aggregator.rs: per-node rolling window *)

\* const WINDOW: Duration = Duration::from_secs(60)
WINDOW == 60

\* const MAX_SAMPLES_PER_NODE: usize = 64
MAX_SAMPLES_PER_NODE == 64

\* The fields of NodeAvg (and GhAvg) that hold a mean, in declaration order.
AvgFields ==
    << "air_temp_c", "leaf_temp_c", "bag_temp_c", "air_rh_pct",
       "bag_rh1_pct", "bag_rh2_pct", "bag_rh3_pct", "bag_rh4_pct", "bag_rh_avg_pct",
       "par_value", "weight_g", "ea_air_kpa", "ea_leaf_kpa", "es_kpa", "vpd_kpa" >>

AvgFieldSet == SeqToSet(AvgFields)

\* The fields the NodeKind::Outdoor arm accumulates; the others it sets to None.
OutdoorAvgFields == { "air_temp_c", "air_rh_pct", "par_value", "ea_air_kpa", "es_kpa" }

\* The fields decoded as u16 and widened with `as f32` before acc.
U16Fields == { "par_value", "weight_g" }

\* NodeWindow::new(kind, ids)
NodeWindow_new(kind, ids) == [ kind |-> kind, ids |-> ids, buf |-> <<>> ]

\* A plausible slip: the staleness prune left out.
PruneFront_none(buf, t) == buf

\* A plausible slip: `>=` for `>`, a sample of age exactly WINDOW pruned.
RECURSIVE PruneFront_inclusive(_, _)
PruneFront_inclusive(buf, t) ==
    IF buf # <<>> /\ t - Head(buf).at >= WINDOW THEN PruneFront_inclusive(Tail(buf), t) ELSE buf

\* `while let Some(front) = buf.front() { if now - front.at > WINDOW { pop_front } else { break } }`
RECURSIVE PruneFront(_, _)
PruneFront(buf, t) ==
    IF buf # <<>> /\ t - Head(buf).at > WINDOW THEN PruneFront(Tail(buf), t) ELSE buf

\* A plausible slip: the newest entries dropped to get back under the cap.
TrimToCap_back(buf) ==
    IF Len(buf) > MAX_SAMPLES_PER_NODE THEN SubSeq(buf, 1, MAX_SAMPLES_PER_NODE) ELSE buf

\* `while buf.len() > MAX_SAMPLES_PER_NODE { buf.pop_front(); }`
RECURSIVE TrimToCap(_)
TrimToCap(buf) ==
    IF Len(buf) > MAX_SAMPLES_PER_NODE THEN TrimToCap(Tail(buf)) ELSE buf

\* A plausible slip: a sample of another variant than the window's kind turned away.
push_and_prune_matching(win, t, data) ==
    IF data.variant # win.kind THEN win
    ELSE [ win EXCEPT !.buf = TrimToCap(PruneFront(Append(win.buf, [at |-> t, data |-> data]), t)) ]

\* NodeWindow::push_and_prune(now, data)
push_and_prune(win, t, data) ==
    [ win EXCEPT !.buf = TrimToCap(PruneFront(Append(win.buf, [at |-> t, data |-> data]), t)) ]

\* A plausible slip: non-finite values accumulated like any other (as zero).
acc_unchecked(v, a) ==
    LET x == f32_as_f64(v)
    IN  [ sum |-> IF x.finite THEN RatAdd(a.sum, x.val) ELSE a.sum, cnt |-> a.cnt + 1 ]

\* acc(v, &mut sum, &mut cnt): `let x = v as f64; if x.is_finite() { sum += x; cnt += 1 }`
acc(v, a) ==
    LET x == f32_as_f64(v)
    IN  IF x.finite THEN [ sum |-> RatAdd(a.sum, x.val), cnt |-> a.cnt + 1 ] ELSE a

\* A plausible slip: an empty accumulation reported as zero.
mean_zero(sum, cnt) == IF cnt = 0 THEN Some(RatZero) ELSE Some(RatDivInt(sum, cnt))

\* mean(sum, cnt): `if cnt == 0 { None } else { Some((sum / cnt as f64) as f32) }`
mean(sum, cnt) == IF cnt = 0 THEN None ELSE Some(RatDivInt(sum, cnt))

\* The value a sample contributes for field f, as the f32 handed to acc.
FieldAsF32(data, f) == IF f \in U16Fields THEN u16_as_f32(data.f[f]) ELSE data.f[f]

\* `for s in win.buf.iter() { if let Decoded::<variant> { .. } = s.data { acc(f, ..) } }`
\* for one field f, from sample i on.
RECURSIVE AccField(_, _, _, _, _)
AccField(buf, i, variant, f, a) ==
    IF i > Len(buf) THEN a
    ELSE LET next == IF buf[i].data.variant = variant
                     THEN acc(FieldAsF32(buf[i].data, f), a) ELSE a
         IN  IF next.cnt >= a.cnt THEN AccField(buf, i + 1, variant, f, next) ELSE next

MeanField(buf, variant, f) ==
    LET a == AccField(buf, 1, variant, f, [ sum |-> RatZero, cnt |-> 0 ])
    IN  mean(a.sum, a.cnt)

\* The NodeAvg the tick builds for a window (`match win.kind`), captured at t.
NodeAvgOf(win, t) ==
    [ greenhouse_id |-> win.ids[1], node_id |-> win.ids[2], at |-> t,
      f |-> [ f \in AvgFieldSet |->
                IF win.kind = "Standard" THEN MeanField(win.buf, "Standard", f)
                ELSE IF f \in OutdoorAvgFields THEN MeanField(win.buf, "Outdoor", f)
                ELSE None ] ]

\* interval(WINDOW) created at `start`, its immediate first tick consumed
\* (`tick.tick().await`): the first tick the loop sees is one period later.
FirstTickDeadline(start) == start + WINDOW

\* All orders in which a HashMap over `keys` may be iterated.
RECURSIVE Orders(_)
Orders(keys) ==
    IF keys = {} THEN { <<>> }
    ELSE UNION { { <<k>> \o rest : rest \in Orders(keys \ {k}) } : k \in keys }

\* A plausible slip: a window that pruned to empty still reports.
EmitsAtTick_always(buf) == TRUE

\* `let samples = win.buf.len(); if samples == 0 { continue; }`
EmitsAtTick(buf) == Len(buf) # 0

\* A plausible slip: the second send is skipped when the first fails.
ForwardNodeAvg_coupled(st, na) ==
    IF StorageGone \/ Len(st.db) >= NODEAVG_CAP THEN st
    ELSE [ st EXCEPT !.db = try_send_db(@, NODEAVG_CAP, na),
                     !.gh = try_send(@, NODEAVG_CAP, na) ]

\* `let _ = tx_nodeavg_db.try_send(na); let _ = tx_nodeavg_gh.try_send(na);`
ForwardNodeAvg(st, na) ==
    [ st EXCEPT !.db = try_send_db(@, NODEAVG_CAP, na),
                !.gh = try_send(@, NODEAVG_CAP, na) ]

\* The tick arm's loop body over the keys of `order` from position i on: re-prune the
\* window, skip it when empty, else build the NodeAvg and try_send it to storage and
\* to the greenhouse aggregator.  st = [nodes, db, gh, out].
RECURSIVE TickNodes(_, _, _, _)
TickNodes(order, i, t, st) ==
    IF i > Len(order) THEN st
    ELSE LET key == order[i]
             win == [ st.nodes[key] EXCEPT !.buf = PruneFront(@, t) ]
             na  == NodeAvgOf(win, t)
         IN  TickNodes(order, i + 1, t,
                IF EmitsAtTick(win.buf)
                THEN ForwardNodeAvg([ st EXCEPT !.nodes[key] = win, !.out = Append(@, na) ], na)
                ELSE [ st EXCEPT !.nodes[key] = win ])

\* A plausible slip: the window's kind follows the latest sample.
entry_or_insert_with_retyped(m, key, kind) ==
    IF key \in DOMAIN m THEN [ m[key] EXCEPT !.kind = kind ] ELSE NodeWindow_new(kind, key)

\* `nodes.entry(key).or_insert_with(|| NodeWindow::new(kind, key))`: the window filed
\* under key, created from this sample's kind when there is none.
entry_or_insert_with(m, key, kind) ==
    IF key \in DOMAIN m THEN m[key] ELSE NodeWindow_new(kind, key)

\* `Decoded::{Standard, Outdoor} { greenhouse_id, node_id, .. } => (greenhouse_id, node_id)`
NodeKeyOf(msg) == << msg.f["greenhouse_id"], msg.f["node_id"] >>

\* One more sample handed to `key` since the last tick (history).
CountPush(pushed, key) ==
    [ k \in DOMAIN pushed \cup {key} |->
        (IF k \in DOMAIN pushed THEN pushed[k] ELSE 0) + (IF k = key THEN 1 ELSE 0) ]

\* rx_decoded.recv() returned Some(msg): file it under its (greenhouse_id, node_id).
NodeRecv ==
    /\ rx_decoded # <<>>
    /\ LET msg  == Head(rx_decoded)
           key  == NodeKeyOf(msg)
           kind == msg.variant
           win  == entry_or_insert_with(nodes, key, kind)
       IN  nodes' = [ k \in DOMAIN nodes \cup {key} |->
                        IF k = key THEN push_and_prune(win, now, msg) ELSE nodes[k] ]
    /\ rx_decoded' = Tail(rx_decoded)
    /\ nodeTickLog' = [ nodeTickLog EXCEPT !.pushed = CountPush(@, NodeKeyOf(Head(rx_decoded))) ]
    /\ UNCHANGED << now, subVars, nodeNextTick,
                    rx_nodeavg_for_db, rx_nodeavg_for_gh, ghVars, rx_ghavg_for_db, storeVars, envSent, stalled >>

NodeTickDue == now >= nodeNextTick

\* tick.tick() completed: evaluate every known key at Instant::now().
NodeTick ==
    /\ NodeTickDue
    /\ try_send_ready(rx_nodeavg_for_db, NODEAVG_CAP)
    /\ try_send_ready(rx_nodeavg_for_gh, NODEAVG_CAP)
    /\ \E order \in Orders(DOMAIN nodes) :
         LET st == TickNodes(order, 1, now,
                             [ nodes |-> nodes, db |-> rx_nodeavg_for_db,
                               gh |-> rx_nodeavg_for_gh, out |-> <<>> ])
         IN  /\ nodes' = st.nodes
             /\ rx_nodeavg_for_db' = st.db
             /\ rx_nodeavg_for_gh' = st.gh
             /\ nodeTickLog' = [ n |-> nodeTickLog.n + 1, at |-> now, pre |-> nodes,
                                 post |-> st.nodes, out |-> st.out, pushed |-> <<>> ]
    /\ nodeNextTick' = nodeNextTick + WINDOW
    /\ UNCHANGED << now, subVars, rx_decoded, ghVars, rx_ghavg_for_db, storeVars, envSent, stalled >>

-----------------------------------------------------------------------------
(* greenhouse_aggregator.rs: per-greenhouse averages over fresh NodeAvgs *)

\* const STALE_GRACE: Duration = Duration::from_secs(5)
STALE_GRACE == 5

\* A plausible slip: every stored entry taken as fresh.
IsFresh_always(v, t) == TRUE

\* A plausible slip: the grace period as long as the window.
IsFresh_long_grace(v, t) == t - v.at <= WINDOW + WINDOW

\* `.filter(|v| now.duration_since(v.at) <= WINDOW + STALE_GRACE)`
IsFresh(v, t) == t - v.at <= WINDOW + STALE_GRACE

\* `st.nodes.values().filter(..).collect()`: the node ids of the fresh entries.
FreshIds(st, t) == { n \in DOMAIN st.nodes : IsFresh(st.nodes[n], t) }

\* A plausible slip: the count of stored entries reported instead of the fresh ones.
CountNodes_stored(st, fresh) == Cardinality(DOMAIN st.nodes)

\* `let n_nodes = fresh.len();`
CountNodes(st, fresh) == Cardinality(fresh)

\* acc_opt(v, &mut sum, &mut cnt): `if let Some(x) = v { if x.is_finite() { sum += x; cnt += 1 } }`
\* (a mean kept as a rational is finite).
acc_opt(v, a) ==
    IF IsSome(v) THEN [ sum |-> RatAdd(a.sum, v.val), cnt |-> a.cnt + 1 ] ELSE a

\* `for v in &fresh { acc_opt(v.$getter, &mut s, &mut c); }` over the entries `ids`.
RECURSIVE AccFresh(_, _, _, _)
AccFresh(st, ids, f, a) ==
    IF ids = {} THEN a
    ELSE LET n == CHOOSE m \in ids : TRUE
         IN  AccFresh(st, ids \ {n}, f, acc_opt(st.nodes[n].f[f], a))

\* acc_field!(getter): the mean of one field over the fresh entries.
acc_field(st, fresh, f) ==
    LET a == AccFresh(st, fresh, f, [ sum |-> RatZero, cnt |-> 0 ])
    IN  mean(a.sum, a.cnt)

\* The GhAvg the tick builds for greenhouse g from its fresh entries.
GhAvgOf(g, st, fresh) ==
    [ greenhouse_id |-> g,
      f |-> [ f \in AvgFieldSet |-> acc_field(st, fresh, f) ],
      nodes |-> CountNodes(st, fresh) ]

\* A plausible slip: a greenhouse without fresh entries still reports.
GhEmits_always(n_nodes) == TRUE

\* `if n_nodes == 0 { println!("No fresh node averages"); continue; }`
GhEmits(n_nodes) == n_nodes # 0

\* The tick arm's loop body over the greenhouses of `order` from position i on.
\* st = [db, out, nofresh].
RECURSIVE TickGreenhouses(_, _, _, _)
TickGreenhouses(order, i, t, st) ==
    IF i > Len(order) THEN st
    ELSE LET g     == order[i]
             fresh == FreshIds(gh[g], t)
             ga    == GhAvgOf(g, gh[g], fresh)
         IN  TickGreenhouses(order, i + 1, t,
                IF GhEmits(Cardinality(fresh))
                THEN [ st EXCEPT !.db  = try_send_db(@, GHAVG_CAP, ga),
                                 !.out = Append(@, ga) ]
                ELSE [ st EXCEPT !.nofresh = @ \cup {g} ])

\* GHState::new()
GHState_new == [ nodes |-> <<>> ]

\* A plausible slip: the entry a node already has is kept.
nodes_insert_keep_first(m, k, v) ==
    IF k \in DOMAIN m THEN m ELSE [ n \in DOMAIN m \cup {k} |-> IF n = k THEN v ELSE m[n] ]

\* HashMap::insert(k, v): the value of k is v, every other key keeps its value.
nodes_insert(m, k, v) == [ n \in DOMAIN m \cup {k} |-> IF n = k THEN v ELSE m[n] ]

\* The (greenhouse id, node id) pairs of the entries of the greenhouse state.
StoredKeys(m) == UNION { { << g, n >> : n \in DOMAIN m[g].nodes } : g \in DOMAIN m }

\* The stored NodeAvg of key k was replaced: no tick has counted the new one (history).
UsedReset(used, k) == [ e \in DOMAIN used \cup {k} |-> IF e = k THEN 0 ELSE used[e] ]

\* A tick at t counted the stored NodeAvgs that are fresh at t (history).
UsedAtTick(used, m, t) ==
    [ e \in StoredKeys(m) |->
        used[e] + (IF e[2] \in FreshIds(m[e[1]], t) THEN 1 ELSE 0) ]

\* rx_nodeavg.recv() returned Some(na): store it as its node's latest snapshot.
GhRecv ==
    /\ rx_nodeavg_for_gh # <<>>
    /\ LET na == Head(rx_nodeavg_for_gh)
           g  == na.greenhouse_id
           st == IF g \in DOMAIN gh THEN gh[g] ELSE GHState_new
           ns == nodes_insert(st.nodes, na.node_id, na)
       IN  gh' = [ k \in DOMAIN gh \cup {g} |-> IF k = g THEN [ nodes |-> ns ] ELSE gh[k] ]
    /\ rx_nodeavg_for_gh' = Tail(rx_nodeavg_for_gh)
    /\ LET na == Head(rx_nodeavg_for_gh)
       IN  ghTickLog' = [ ghTickLog EXCEPT
                            !.used = UsedReset(@, << na.greenhouse_id, na.node_id >>) ]
    /\ UNCHANGED << now, subVars, rx_decoded, nodeVars, rx_nodeavg_for_db,
                    ghNextTick, rx_ghavg_for_db, storeVars, envSent, stalled >>

GhTickDue == now >= ghNextTick

\* tick.tick() completed: evaluate every known greenhouse at Instant::now().
GhTick ==
    /\ GhTickDue
    /\ try_send_ready(rx_ghavg_for_db, GHAVG_CAP)
    /\ \E order \in Orders(DOMAIN gh) :
         LET st == TickGreenhouses(order, 1, now,
                                   [ db |-> rx_ghavg_for_db, out |-> <<>>, nofresh |-> {} ])
         IN  /\ rx_ghavg_for_db' = st.db
             /\ ghTickLog' = [ n |-> ghTickLog.n + 1, at |-> now, pre |-> gh,
                               out |-> st.out, nofresh |-> st.nofresh,
                               used |-> UsedAtTick(ghTickLog.used, gh, now) ]
    /\ ghNextTick' = ghNextTick + WINDOW
    /\ UNCHANGED << now, subVars, rx_decoded, nodeVars, rx_nodeavg_for_db,
                    rx_nodeavg_for_gh, gh, storeVars, envSent, stalled >>

-----------------------------------------------------------------------------
(* The clock *)

\* The amounts by which the model lets the clock advance in one step.
Steps == {60, 65}

\* The model's runs end at this instant.
MaxTime == 125

\* Time passes by d seconds, up to the instant `limit`.
AdvanceClock(d, limit) ==
    /\ now + d <= limit
    /\ now' = now + d

-----------------------------------------------------------------------------
(* Initial state: every task just spawned (main.rs), all channels empty *)

InitTasks ==
    /\ now = 0
    /\ sub_pc = "connect"
    /\ backoff_ms = BACKOFF_INIT_MS
    /\ rx_decoded = <<>>
    /\ lastPublish = NoPublish
    /\ sleepLog = [ k |-> 0 ]
    /\ nodes = <<>>
    /\ nodeNextTick = FirstTickDeadline(0)
    /\ rx_nodeavg_for_db = <<>>
    /\ rx_nodeavg_for_gh = <<>>
    /\ nodeTickLog = [ n |-> 0, pushed |-> <<>> ]
    /\ gh = <<>>
    /\ ghNextTick = FirstTickDeadline(0)
    /\ rx_ghavg_for_db = <<>>
    /\ ghTickLog = [ n |-> 0, used |-> <<>> ]
    /\ batch_nodes = <<>>
    /\ batch_gh = <<>>
    /\ store_pc = "init"
    /\ flushing = [ bn |-> <<>>, bg |-> <<>> ]
    /\ storeNextTick = 0
    /\ storeLog = [ n |-> 0, recvd |-> 0, handed |-> 0, nodes_handed |-> 0 ]
    /\ db = [ greenhouse_id |-> {}, sensor_type |-> <<>>, node_name |-> <<>>,
              node_values |-> <<>>, greenhouse_average |-> <<>> ]
    /\ flushLog = [ n |-> 0, aborted |-> 0 ]
    /\ envSent = [ na |-> 0, ga |-> 0 ]

\* Every task makes progress.
Init == InitTasks /\ stalled = "none"

-----------------------------------------------------------------------------
(* SpecDecode: the subscriber and the decoder *)

NextDecode ==
    \/ SubscribeOk
    \/ SubscribeErr
    \/ \E p \in Payloads : PollPublish(p)
    \/ PollOther
    \/ PollErr
    \/ SleepDone

SpecDecode == Init /\ [][NextDecode]_vars

-----------------------------------------------------------------------------
(* Payloads with chosen field values, built by the encoder matching the decoder *)

\* 20.0f32 = 0x41A00000
F32_20 == [ sign |-> 0, exp |-> 131, mant |-> 2097152 ]

\* 22.0f32 = 0x41B00000
F32_22 == [ sign |-> 0, exp |-> 131, mant |-> 3145728 ]

\* 20.125f32 = 0x41A10000
F32_20_125 == [ sign |-> 0, exp |-> 131, mant |-> 2162688 ]

\* f32::NAN = 0x7FC00000
F32_NaN == [ sign |-> 0, exp |-> 255, mant |-> 4194304 ]

\* f32::INFINITY = 0x7F800000
F32_Inf == [ sign |-> 0, exp |-> 255, mant |-> 0 ]

\* The little-endian bytes of one field.
EncodeField(ty, v) ==
    IF ty = "u16" THEN << v % 256, v \div 256 >>
    ELSE << v.mant % 256, (v.mant \div 256) % 256,
            (v.exp % 2) * 128 + (v.mant \div 65536), v.sign * 128 + (v.exp \div 2) >>

RECURSIVE EncodeLayout(_, _, _)
EncodeLayout(layout, i, rec) ==
    IF i > Len(layout) THEN <<>>
    ELSE EncodeField(layout[i][2], rec[layout[i][1]]) \o EncodeLayout(layout, i + 1, rec)

LayoutNames(layout) == { layout[i][1] : i \in 1..Len(layout) }

\* A reading of node (g, n): air temperature `air`, air humidity `rh`, PAR 100,
\* weight 7 and every other float equal to `air`.
Reading(layout, g, n, air, rh) ==
    [ name \in LayoutNames(layout) |->
        CASE name = "greenhouse_id" -> g
          [] name = "node_id"       -> n
          [] name = "air_rh_pct"    -> rh
          [] name = "par_value"     -> 100
          [] name = "weight_g"      -> 7
          [] OTHER                  -> air ]

\* 60-byte payloads of node (1, 1): a finite reading, one with an infinite humidity
\* and one with no finite float at all.
StandardPayloads ==
    { EncodeLayout(StandardLayout, 1, Reading(StandardLayout, 1, 1, v[1], v[2])) :
        v \in { <<F32_20, F32_22>>, <<F32_22, F32_Inf>>, <<F32_NaN, F32_Inf>> } }

\* 22-byte payloads: one from the outdoor probe, one carrying node (1, 1)'s ids.
OutdoorPayloads ==
    { EncodeLayout(OutdoorLayout, 1, Reading(OutdoorLayout, 1, n, F32_22, F32_20)) :
        n \in { 1, OUTDOOR_NODE_ID } }

NodePayloads == StandardPayloads \cup OutdoorPayloads

-----------------------------------------------------------------------------
(* SpecNode: payloads arrive, the NodeAggregator ingests them and ticks *)

\* Time passes once the NodeAggregator has nothing ready to handle: no tick due and
\* no sample queued.
NodeAdvance ==
    /\ ~NodeTickDue
    /\ rx_decoded = <<>>
    /\ \E d \in Steps : AdvanceClock(d, MaxTime)
    /\ UNCHANGED << subVars, rx_decoded, nodeVars,
                    rx_nodeavg_for_db, rx_nodeavg_for_gh, ghVars, rx_ghavg_for_db, storeVars, envSent, stalled >>

NextNode ==
    \/ SubscribeOk
    \/ \E p \in NodePayloads : PollPublish(p)
    \/ NodeRecv
    \/ NodeTick
    \/ NodeAdvance

SpecNode == Init /\ [][NextNode]_vars

-----------------------------------------------------------------------------
(* Claims about the decoder and the subscriber, checked under SpecDecode *)

Published == lastPublish.n > 0

\* The node id a payload declares: the u16 at byte offset 2, when it has one.
DeclaredNodeId(p) == rd_u16_le(p, 2).val

DecodedAs(res, variant) == IsSome(res) /\ res.val.variant = variant

C2_Original ==
    Published =>
        LET p   == lastPublish.payload
            nid == DeclaredNodeId(p)
        IN  /\ (Len(p) >= 60 /\ nid.val # OUTDOOR_NODE_ID) => DecodedAs(lastPublish.res, "Standard")
            /\ (Len(p) >= 22 /\ nid.val = OUTDOOR_NODE_ID) => DecodedAs(lastPublish.res, "Outdoor")

\* C2 amended: decode_payload accepts exactly the lengths 60 (Standard, all 17
\* fields) and 22 (Outdoor, all 7 fields), whatever the node id; every other length,
\* longer ones included, is a decode failure.
C2_ExactLength ==
    Published =>
        LET p == lastPublish.payload
            r == lastPublish.res
        IN  /\ Len(p) = 60 => (DecodedAs(r, "Standard")
                                /\ DOMAIN r.val.f = { StandardLayout[i][1] : i \in 1..Len(StandardLayout) })
            /\ Len(p) = 22 => (DecodedAs(r, "Outdoor")
                                /\ DOMAIN r.val.f = { OutdoorLayout[i][1] : i \in 1..Len(OutdoorLayout) })
            /\ Len(p) \notin {22, 60} => ~IsSome(r)

\* C2 witness: a 61-byte payload with a standard node id was rejected.
C2_Witness ==
    /\ Published
    /\ Len(lastPublish.payload) = 61
    /\ DeclaredNodeId(lastPublish.payload) = Some(1)
    /\ ~IsSome(lastPublish.res)

\* The minimum length of the variant a payload's node id selects (Standard when the
\* id is not the outdoor id, or when the payload is too short to carry one).
VariantMinLen(p) ==
    IF DeclaredNodeId(p) = Some(OUTDOOR_NODE_ID) THEN 22 ELSE 60

\* Publishing the payload failed to decode, read only inside the payload, queued
\* nothing and left the subscriber polling.
DroppedCleanly ==
    /\ ~IsSome(lastPublish.res)
    /\ \A i \in lastPublish.reads : 0 <= i /\ i < Len(lastPublish.payload)
    /\ rx_decoded = lastPublish.before
    /\ lastPublish.pc = "poll"

-----------------------------------------------------------------------------
(* Claims about the NodeAggregator, checked under SpecNode *)

NodeTicked == nodeTickLog.n > 0

NodeKey(na) == << na.greenhouse_id, na.node_id >>

\* The samples of buf at most WINDOW old at instant t.
WithinWindow(buf, t) == SelectSeq(buf, LAMBDA s : t - s.at <= WINDOW)

HasStale(buf, t) == \E i \in 1..Len(buf) : t - buf[i].at > WINDOW

\* C4: at every NodeAggregator tick the window holds, after the tick's prune, no
\* sample older than WINDOW (60 s) at the tick instant, and every NodeAvg emitted at
\* the tick is the one its window yields with all such samples deleted: a sample
\* older than the window contributes to no field mean.
C4_StaleSamplesExcluded ==
    NodeTicked =>
        /\ \A k \in DOMAIN nodeTickLog.post : ~HasStale(nodeTickLog.post[k].buf, nodeTickLog.at)
        /\ \A i \in 1..Len(nodeTickLog.out) :
             LET na  == nodeTickLog.out[i]
                 win == nodeTickLog.pre[NodeKey(na)]
             IN  na = NodeAvgOf([ win EXCEPT !.buf = WithinWindow(@, nodeTickLog.at) ],
                                nodeTickLog.at)

\* C4 witness: a tick found a window holding a sample older than 60 s next to a
\* fresh one and emitted that window's NodeAvg.
C4_Witness ==
    /\ NodeTicked
    /\ \E i \in 1..Len(nodeTickLog.out) :
         HasStale(nodeTickLog.pre[NodeKey(nodeTickLog.out[i])].buf, nodeTickLog.at)

\* The exact value a sample carries for field f (a rational, or non-finite).
SampleValue(s, f) == f32_as_f64(FieldAsF32(s.data, f))

RECURSIVE SumOf(_, _, _)
SumOf(buf, f, idxs) ==
    IF idxs = {} THEN RatZero
    ELSE LET i == CHOOSE j \in idxs : TRUE
         IN  RatAdd(SampleValue(buf[i], f).val, SumOf(buf, f, idxs \ {i}))

\* m is the arithmetic mean of the finite values of field f among the samples of
\* buf at the positions idxs: absent when there is none, never a made-up zero.
IsFiniteMean(m, buf, f, idxs) ==
    LET fin == { i \in idxs : SampleValue(buf[i], f).finite }
    IN  IF fin = {} THEN m = None
        ELSE /\ IsSome(m)
             /\ Rat(m.val.num * Cardinality(fin), m.val.den) = SumOf(buf, f, fin)

\* The positions of buf whose sample carries field f at all.
Carrying(buf, f) == { i \in 1..Len(buf) : f \in DOMAIN buf[i].data.f }

\* The positions of buf whose sample is of the given variant and carries field f.
CarryingOfKind(buf, f, kind) == { i \in Carrying(buf, f) : buf[i].data.variant = kind }

OnePerActiveKey ==
    NodeTicked =>
        LET out    == nodeTickLog.out
            active == { k \in DOMAIN nodeTickLog.post : nodeTickLog.post[k].buf # <<>> }
        IN  /\ { NodeKey(out[i]) : i \in 1..Len(out) } = active
            /\ Len(out) = Cardinality(active)
            /\ \A i \in 1..Len(out) : out[i].at = nodeTickLog.at
            /\ nodeTickLog.at >= nodeTickLog.n * WINDOW

\* A step changes a NodeAvg channel only if it is a tick, and a tick appends to each
\* channel exactly the NodeAvgs it produced (the channels have room in this model).
OnlyTicksEmit ==
    /\ (rx_nodeavg_for_db' # rx_nodeavg_for_db \/ rx_nodeavg_for_gh' # rx_nodeavg_for_gh)
          => nodeTickLog'.n = nodeTickLog.n + 1
    /\ nodeTickLog'.n = nodeTickLog.n + 1
          => /\ rx_nodeavg_for_db' = rx_nodeavg_for_db \o nodeTickLog'.out
             /\ rx_nodeavg_for_gh' = rx_nodeavg_for_gh \o nodeTickLog'.out

\* C6: at every NodeAggregator tick exactly one NodeAvg is produced for each key
\* whose window is non-empty after pruning and none for the others, nothing is
\* produced between ticks, and nothing before one full period (60 s) after the start.
C6_OneNodeAvgPerKeyPerTick == []OnePerActiveKey /\ [][OnlyTicksEmit]_vars

\* C6 witness: the second tick knew two keys, skipped the one whose window had
\* emptied and produced one NodeAvg for the other.
C6_Witness ==
    /\ nodeTickLog.n = 2
    /\ Cardinality(DOMAIN nodeTickLog.post) = 2
    /\ Len(nodeTickLog.out) = 1
    /\ Len(rx_nodeavg_for_gh) = 3

-----------------------------------------------------------------------------
(* SpecGh: NodeAvgs arrive, the GreenhouseAggregator stores them and ticks *)

\* Runs of SpecGh offer at most this many NodeAvgs.
MaxNodeAvgs == 2

\* How long after its deadline a tick of SpecGh is evaluated: a snapshot ages by 50
\* to 70 seconds between ticks.
GhSteps == {0, 5, 10}

\* SpecGh's runs end at this instant.
GhMaxTime == 190

\* The nodes reporting in SpecGh: two in greenhouse 1, one in greenhouse 2.
GhNodeKeys == { <<1, 1>>, <<1, 2>>, <<2, 1>> }

\* What the NodeAggregator's tick emits for a node whose window holds the single
\* Standard reading (air, rh), evaluated at instant t.
SingleSampleAvg(k, air, rh, t) ==
    LET p == EncodeLayout(StandardLayout, 1, Reading(StandardLayout, k[1], k[2], air, rh))
        d == decode_payload(p).res.val
    IN  NodeAvgOf(push_and_prune(NodeWindow_new(d.variant, k), t, d), t)

\* The snapshots offered: per node, one with every float field 20 (humidity 22) and
\* one with every float field 22 and no humidity.
GhProfiles ==
    { SingleSampleAvg(k, v[1], v[2], 0) :
        k \in GhNodeKeys, v \in { <<F32_20, F32_22>>, <<F32_22, F32_Inf>> } }

\* The NodeAggregator's tick: `let _ = tx_nodeavg_gh.try_send(na);` with na.at the
\* tick's instant; its first tick is one WINDOW after start.
NodeAvgArrives(na) ==
    /\ envSent.na < MaxNodeAvgs
    /\ now >= FirstTickDeadline(0)
    /\ rx_nodeavg_for_gh' = try_send(rx_nodeavg_for_gh, NODEAVG_CAP, [ na EXCEPT !.at = now ])
    /\ envSent' = [ envSent EXCEPT !.na = @ + 1 ]
    /\ UNCHANGED << now, subVars, rx_decoded, nodeVars, rx_nodeavg_for_db,
                    ghVars, rx_ghavg_for_db, storeVars, stalled >>

\* Time passes once the GreenhouseAggregator has nothing ready to handle.
GhAdvance ==
    /\ ~GhTickDue
    /\ rx_nodeavg_for_gh = <<>>
    /\ \E late \in GhSteps : AdvanceClock(ghNextTick + late - now, GhMaxTime)
    /\ UNCHANGED << subVars, rx_decoded, nodeVars, rx_nodeavg_for_db, rx_nodeavg_for_gh,
                    ghVars, rx_ghavg_for_db, storeVars, envSent, stalled >>

NextGh ==
    \/ \E na \in GhProfiles : NodeAvgArrives(na)
    \/ GhRecv
    \/ GhTick
    \/ GhAdvance

SpecGh == Init /\ [][NextGh]_vars

-----------------------------------------------------------------------------
(* Claims about the GreenhouseAggregator *)

GhTicked == ghTickLog.n > 0

\* The stored entries of greenhouse g, before the last tick, no older than
\* WINDOW + STALE_GRACE at that tick.
FreshBefore(g) ==
    { n \in DOMAIN ghTickLog.pre[g].nodes :
        ghTickLog.at - ghTickLog.pre[g].nodes[n].at <= 65 }

StaleBefore(g) == DOMAIN ghTickLog.pre[g].nodes \ FreshBefore(g)

GhAvgsFor(g) == { i \in 1..Len(ghTickLog.out) : ghTickLog.out[i].greenhouse_id = g }

\* C7: at a tick, a greenhouse none of whose stored snapshots is fresh gets no GhAvg
\* (it is reported as having no fresh data); a greenhouse with a fresh snapshot gets
\* exactly one, and nothing but the tick's GhAvgs is queued for storage.
C7_NoFreshNoGhAvg ==
    GhTicked =>
        /\ \A g \in DOMAIN ghTickLog.pre :
             IF FreshBefore(g) = {}
             THEN GhAvgsFor(g) = {} /\ g \in ghTickLog.nofresh
             ELSE Cardinality(GhAvgsFor(g)) = 1 /\ g \notin ghTickLog.nofresh
        /\ \A i \in 1..Len(ghTickLog.out) : ghTickLog.out[i].greenhouse_id \in DOMAIN ghTickLog.pre
        /\ \A i \in 1..Len(rx_ghavg_for_db) :
             rx_ghavg_for_db[i].nodes >= 1

\* A tick that saw a greenhouse with only stale snapshots next to one with a fresh one.
C7_Witness ==
    /\ GhTicked
    /\ \E g \in DOMAIN ghTickLog.pre :
         /\ DOMAIN ghTickLog.pre[g].nodes # {}
         /\ FreshBefore(g) = {}
         /\ g \in ghTickLog.nofresh
    /\ Len(ghTickLog.out) = 1

\* The fresh snapshots of greenhouse g that carry a value for field f.
GhCarrying(g, f) == { n \in FreshBefore(g) : IsSome(ghTickLog.pre[g].nodes[n].f[f]) }

RECURSIVE GhSumOf(_, _, _)
GhSumOf(g, f, ids) ==
    IF ids = {} THEN RatZero
    ELSE LET n == CHOOSE m \in ids : TRUE
         IN  RatAdd(ghTickLog.pre[g].nodes[n].f[f].val, GhSumOf(g, f, ids \ {n}))

\* m is the arithmetic mean of field f over the snapshots `ids` of greenhouse g.
GhIsMean(m, g, f, ids) ==
    IF ids = {} THEN m = None
    ELSE m = Some(RatDivInt(GhSumOf(g, f, ids), Cardinality(ids)))

\* C8: every field of a GhAvg is the mean of that field over the greenhouse's fresh
\* snapshots that carry it; stale snapshots and absent values contribute nothing.
C8_MeanOverFreshPresent ==
    GhTicked =>
        \A i \in 1..Len(ghTickLog.out) :
            LET ga == ghTickLog.out[i]
            IN  \A f \in AvgFieldSet : GhIsMean(ga.f[f], ga.greenhouse_id, f, GhCarrying(ga.greenhouse_id, f))

\* A GhAvg of a greenhouse holding a stale snapshot (air 20, humidity 22) and a fresh
\* one (air 22, no humidity): the air mean is 22 and the humidity is absent.
C8_Witness ==
    /\ GhTicked
    /\ \E i \in 1..Len(ghTickLog.out) :
         LET ga == ghTickLog.out[i]
             g  == ga.greenhouse_id
         IN  /\ \E n \in StaleBefore(g) :
                  /\ ghTickLog.pre[g].nodes[n].f["air_temp_c"] = Some(Rat(20, 1))
                  /\ ghTickLog.pre[g].nodes[n].f["air_rh_pct"] = Some(Rat(22, 1))
             /\ FreshBefore(g) # {}
             /\ ga.f["air_temp_c"] = Some(Rat(22, 1))
             /\ ga.f["air_rh_pct"] = None

\* C9: a GhAvg's `nodes` is the number of fresh snapshots of its greenhouse; with a
\* single fresh snapshot it is 1 and every field that snapshot carries is passed on
\* unchanged.
C9_NodesCountsFresh ==
    GhTicked =>
        \A i \in 1..Len(ghTickLog.out) :
            LET ga == ghTickLog.out[i]
                g  == ga.greenhouse_id
            IN  /\ ga.nodes = Cardinality(FreshBefore(g))
                /\ \A n \in FreshBefore(g) :
                     FreshBefore(g) = {n} =>
                        /\ ga.nodes = 1
                        /\ \A f \in AvgFieldSet :
                             IsSome(ghTickLog.pre[g].nodes[n].f[f]) =>
                                ga.f[f] = ghTickLog.pre[g].nodes[n].f[f]

\* A GhAvg built from a single fresh snapshot while the greenhouse also holds a stale one.
C9_Witness ==
    /\ GhTicked
    /\ \E i \in 1..Len(ghTickLog.out) :
         LET ga == ghTickLog.out[i]
             g  == ga.greenhouse_id
         IN  /\ ga.nodes = 1
             /\ Cardinality(DOMAIN ghTickLog.pre[g].nodes) = 2
             /\ ga.f["air_rh_pct"] = Some(Rat(22, 1))

\* Every entry is filed under the greenhouse id and node id it carries.
GhKeyedByIds ==
    \A g \in DOMAIN gh : \A n \in DOMAIN gh[g].nodes :
        gh[g].nodes[n].greenhouse_id = g /\ gh[g].nodes[n].node_id = n

\* The entries of the state, as (greenhouse, node) pairs.
GhEntries(s) ==
    { p \in (DOMAIN s) \X UNION { DOMAIN s[x].nodes : x \in DOMAIN s } :
        p[2] \in DOMAIN s[p[1]].nodes }

\* A received NodeAvg becomes the entry of its (greenhouse, node); every other entry
\* stays as it was and no entry appears or disappears.
GhArrivalReplaces ==
    Len(rx_nodeavg_for_gh') < Len(rx_nodeavg_for_gh) =>
        LET na == Head(rx_nodeavg_for_gh)
            k  == << na.greenhouse_id, na.node_id >>
        IN  /\ GhEntries(gh') = GhEntries(gh) \cup {k}
            /\ gh'[k[1]].nodes[k[2]] = na
            /\ \A p \in GhEntries(gh) \ {k} : gh'[p[1]].nodes[p[2]] = gh[p[1]].nodes[p[2]]

\* Nothing but an arrival changes the state: a tick evicts no entry.
GhOnlyArrivalsWrite ==
    Len(rx_nodeavg_for_gh') >= Len(rx_nodeavg_for_gh) => gh' = gh

\* C18: per greenhouse the state holds one entry per node id, filed under the ids it
\* carries; an arriving NodeAvg replaces the entry of its (greenhouse, node), so that
\* the entry is always the latest received, and leaves every other entry unchanged.
C18_LatestNodeAvgPerNode ==
    /\ []GhKeyedByIds
    /\ [][GhArrivalReplaces /\ GhOnlyArrivalsWrite]_vars

\* Two NodeAvgs of node (1, 1) were received, values 20 then 22 at a later instant:
\* the single entry is the second.
C18_Witness ==
    /\ envSent.na = 2
    /\ rx_nodeavg_for_gh = <<>>
    /\ GhEntries(gh) = { << 1, 1 >> }
    /\ gh[1].nodes[1].f["air_temp_c"] = Some(Rat(22, 1))
    /\ gh[1].nodes[1].at > FirstTickDeadline(0)
    /\ ghTickLog.n >= 1
    /\ GhEntries(ghTickLog.pre) = { << 1, 1 >> }
    /\ ghTickLog.pre[1].nodes[1].f["air_temp_c"] = Some(Rat(20, 1))
    /\ ghTickLog.pre[1].nodes[1].at < gh[1].nodes[1].at

-----------------------------------------------------------------------------
(* sqlite.rs: the schema and the row writers *)

\* round(): to the nearest integer, halves away from zero, of the rational n / d.
RoundHalfAway(n, d) ==
    IF n >= 0 THEN (2 * n + d) \div (2 * d) ELSE -((2 * (-n) + d) \div (2 * d))

\* A plausible slip: the value stored as it is carried.
r2_unrounded(v) == v

\* r2(v): `v.map(|x| ((x as f64) * 100.0).round() / 100.0)`
r2(v) == IF IsSome(v) THEN Some(Rat(RoundHalfAway(v.val.num * 100, v.val.den), 100)) ELSE None

\* now_ms(): the wall clock in milliseconds.
now_ms == now * 1000

\* The unit each sensor key is registered with (flush_batch's literals).
UnitOf(key) ==
    CASE key \in { "air_temp_c", "leaf_temp_c", "bag_temp_c" } -> "C"
      [] key \in { "air_rh_pct", "bag_rh1_pct", "bag_rh2_pct", "bag_rh3_pct",
                   "bag_rh4_pct", "bag_rh_avg_pct" } -> "%"
      [] key \in { "par_value", "weight_g" } -> ""
      [] OTHER -> "kPa"

\* label_for(node_id)
label_for(node_id) ==
    IF node_id = 65001 THEN "Outdoor_Node"
    ELSE IF node_id \in 1..12
         THEN <<"node01", "node02", "node03", "node04", "node05", "node06",
                "node07", "node08", "node09", "node10", "node11", "node12">>[node_id]
    ELSE "nodeXX"

\* The tables open_and_init creates, empty.  sensor_type and node_name are keyed by
\* their UNIQUE column(s) and hold the AUTOINCREMENT id; the two fact tables are keyed
\* by their UNIQUE(ts_ms, owner, sensor_type_id, agg) tuple.
EmptyDb ==
    [ greenhouse_id      |-> {},
      sensor_type        |-> <<>>,
      node_name          |-> <<>>,
      node_values        |-> <<>>,
      greenhouse_average |-> <<>> ]

Ok(c, v) == [ ok |-> TRUE, conn |-> c, val |-> v ]

Err(c) == [ ok |-> FALSE, conn |-> c ]

\* ensure_greenhouse: `INSERT OR IGNORE INTO greenhouse_id(id) VALUES (?1)`
ensure_greenhouse(c, gh_id, fails) ==
    IF fails THEN Err(c)
    ELSE Ok([ c EXCEPT !.greenhouse_id = @ \cup {gh_id} ], TRUE)

\* ensure_node: ensure_greenhouse?, `INSERT OR IGNORE INTO node_name ...`, then the
\* SELECT of the row id.
ensure_node(c, gh_id, node_id, label, gh_fails, fails) ==
    LET g == ensure_greenhouse(c, gh_id, gh_fails)
    IN  IF ~g.ok THEN g
        ELSE IF fails THEN Err(g.conn)
        ELSE LET k == << gh_id, node_id >>
                 t == g.conn.node_name
                 u == IF k \in DOMAIN t THEN t
                      ELSE t @@ (k :> [ id |-> Cardinality(DOMAIN t) + 1, label |-> label ])
             IN  Ok([ g.conn EXCEPT !.node_name = u ], u[k].id)

\* ensure_sensor: `INSERT OR IGNORE INTO sensor_type(key,unit) ...`, then the SELECT
\* of the row id.
ensure_sensor(c, key, unit, fails) ==
    IF fails THEN Err(c)
    ELSE LET t == c.sensor_type
             u == IF key \in DOMAIN t THEN t
                  ELSE t @@ (key :> [ id |-> Cardinality(DOMAIN t) + 1, unit |-> unit ])
         IN  Ok([ c EXCEPT !.sensor_type = u ], u[key].id)

\* A plausible slip: a conflicting row replaces the stored one.
InsertOrIgnore_replace(t, k, row) ==
    IF k \in DOMAIN t THEN [ t EXCEPT ![k] = [ row EXCEPT !.id = t[k].id ] ]
    ELSE t @@ (k :> [ row EXCEPT !.id = Cardinality(DOMAIN t) + 1 ])

\* `INSERT OR IGNORE`: a row whose UNIQUE key is already stored is dropped.
InsertOrIgnore(t, k, row) ==
    IF k \in DOMAIN t THEN t
    ELSE t @@ (k :> [ row EXCEPT !.id = Cardinality(DOMAIN t) + 1 ])

\* insert_node_field(conn, ts, node_rowid, key, unit, val); `fails` names the
\* statements of this call that return an error.
insert_node_field(c, ts, node_rowid, key, unit, val, fails) ==
    LET s == ensure_sensor(c, key, unit, "ensure_sensor" \in fails)
    IN  IF ~s.ok THEN s.conn
        ELSE IF "insert" \in fails THEN s.conn
        ELSE [ s.conn EXCEPT !.node_values =
                 InsertOrIgnore(@, << ts, node_rowid, s.val, "rolling_60s" >>,
                                [ id |-> 0, value |-> r2(val), window_sec |-> 60 ]) ]

\* insert_gh_field(conn, ts, gh_id, key, unit, val, nodes)
insert_gh_field(c, ts, gh_id, key, unit, val, n_nodes, fails) ==
    LET g == ensure_greenhouse(c, gh_id, "ensure_greenhouse" \in fails)
    IN  IF ~g.ok THEN g.conn
        ELSE LET s == ensure_sensor(g.conn, key, unit, "ensure_sensor" \in fails)
             IN  IF ~s.ok THEN s.conn
                 ELSE IF "insert" \in fails THEN s.conn
                 ELSE [ s.conn EXCEPT !.greenhouse_average =
                          InsertOrIgnore(@, << ts, gh_id, s.val, "rolling_60s" >>,
                                         [ id |-> 0, value |-> r2(val), nodes |-> n_nodes,
                                           window_sec |-> 60 ]) ]

\* A fault set holds pairs << at, statement >>: `at` is << "batch", 0, "" >> for
\* open / begin / commit, << "node", i, "" >> for the ensure_node of the i-th NodeAvg,
\* and << "node", i, key >> or << "gh", i, key >> for one field's row write.
\* The statements at `at` that the fault set makes fail.
FailsAt(faults, at) == { x[2] : x \in { y \in faults : y[1] = at } }

\* TRUE for every connection state c; evaluating it evaluates c.  The loops below
\* use it to finish the statements of the first half of a range before those of the
\* second half start, as the sequential code does.
Done(c) == DOMAIN c = DOMAIN c

\* The insert_node_field calls for fields lo..hi of one NodeAvg, in order (ranges are
\* halved to keep the evaluation shallow).
RECURSIVE NodeFields(_, _, _, _, _, _, _, _)
NodeFields(c, ts, rowid, na, i, lo, hi, faults) ==
    IF lo = hi
    THEN insert_node_field(c, ts, rowid, AvgFields[lo], UnitOf(AvgFields[lo]),
                           na.f[AvgFields[lo]], FailsAt(faults, << "node", i, AvgFields[lo] >>))
    ELSE LET mid == (lo + hi) \div 2
             first == NodeFields(c, ts, rowid, na, i, lo, mid, faults)
         IN  IF Done(first) THEN NodeFields(first, ts, rowid, na, i, mid + 1, hi, faults)
             ELSE first

\* A plausible slip: a NodeAvg's rows stamped with its capture instant.
RowStamp_capture(ts, na) == na.at * 1000

\* The ts_ms of the rows of one NodeAvg: `let ts = now_ms();` taken once, before the
\* loops, and passed to every insert_node_field call.
RowStamp(ts, na) == ts

\* One iteration of `for na in batch_nodes`:
\* `match ensure_node(..) { Ok(node_rowid) => 15 x insert_node_field, Err(e) => skip }`
FlushNodeAvg(c, ts, na, i, faults) ==
    LET fl == FailsAt(faults, << "node", i, "" >>)
        e  == ensure_node(c, na.greenhouse_id, na.node_id, label_for(na.node_id),
                          "ensure_greenhouse" \in fl, "ensure_node" \in fl)
    IN  IF e.ok THEN NodeFields(e.conn, RowStamp(ts, na), e.val, na, i, 1, Len(AvgFields), faults)
        ELSE e.conn

\* `for na in batch_nodes { .. }` over the entries lo..hi, in order (the range is
\* halved so that a 512-entry batch nests nine deep).
RECURSIVE FlushNodes(_, _, _, _, _, _)
FlushNodes(c, ts, bn, lo, hi, faults) ==
    IF lo > hi THEN c
    ELSE IF lo = hi THEN FlushNodeAvg(c, ts, bn[lo], lo, faults)
    ELSE LET mid == (lo + hi) \div 2
             first == FlushNodes(c, ts, bn, lo, mid, faults)
         IN  IF Done(first) THEN FlushNodes(first, ts, bn, mid + 1, hi, faults) ELSE first

\* The insert_gh_field calls for fields lo..hi of one GhAvg, in order.
RECURSIVE GhFields(_, _, _, _, _, _, _)
GhFields(c, ts, ga, i, lo, hi, faults) ==
    IF lo = hi
    THEN insert_gh_field(c, ts, ga.greenhouse_id, AvgFields[lo], UnitOf(AvgFields[lo]),
                         ga.f[AvgFields[lo]], ga.nodes,
                         FailsAt(faults, << "gh", i, AvgFields[lo] >>))
    ELSE LET mid == (lo + hi) \div 2
             first == GhFields(c, ts, ga, i, lo, mid, faults)
         IN  IF Done(first) THEN GhFields(first, ts, ga, i, mid + 1, hi, faults) ELSE first

\* `for ga in batch_gh { insert_gh_field(..) x 15 }` over the entries lo..hi, in order.
RECURSIVE FlushGhs(_, _, _, _, _, _)
FlushGhs(c, ts, bg, lo, hi, faults) ==
    IF lo > hi THEN c
    ELSE IF lo = hi THEN GhFields(c, ts, bg[lo], lo, 1, Len(AvgFields), faults)
    ELSE LET mid == (lo + hi) \div 2
             first == FlushGhs(c, ts, bg, lo, mid, faults)
         IN  IF Done(first) THEN FlushGhs(first, ts, bg, mid + 1, hi, faults) ELSE first

\* A plausible slip: any failed statement rolls the transaction back.
Committed_only_clean(fl, faults) == faults = {}

\* A plausible slip: the rows written before a failed commit stay.
Committed_always(fl, faults) == TRUE

\* `tx.commit()` succeeded: row-level errors were only logged on the way.
Committed(fl, faults) == "commit" \notin fl

\* flush_batch(db_path, batch_nodes, batch_gh): the tables after the call.  An empty
\* batch returns at once; a failed open or begin returns before any write; a failed
\* commit drops the transaction, which rolls it back.
flush_batch(d, bn, bg, ts, faults) ==
    IF bn = <<>> /\ bg = <<>> THEN d
    ELSE LET fl == FailsAt(faults, << "batch", 0, "" >>)
         IN  IF "open" \in fl \/ "begin" \in fl THEN d
             ELSE LET tn == FlushNodes(d, ts, bn, 1, Len(bn), faults)
                      tx == IF Done(tn) THEN FlushGhs(tn, ts, bg, 1, Len(bg), faults) ELSE tn
                  IN  IF Committed(fl, faults) THEN tx ELSE d

-----------------------------------------------------------------------------
(* sqlite.rs: run_storage, the batching StorageWriter *)

\* const BATCH_SIZE: usize = 512
BATCH_SIZE == 512

\* const FLUSH_EVERY: Duration = Duration::from_secs(1)
FLUSH_EVERY == 1

\* A plausible slip: the flush starts only once the threshold is exceeded.
ReachedBatch_exceeds(bn, bg) == Len(bn) + Len(bg) > BATCH_SIZE

\* `batch_nodes.len() + batch_gh.len() >= BATCH_SIZE`
ReachedBatch(bn, bg) == Len(bn) + Len(bg) >= BATCH_SIZE

\* A plausible slip: the flush spawned and not awaited, the loop selecting again.
StartFlush_detached(bn, bg, cause) ==
    /\ flushing' = [ bn |-> bn, bg |-> bg ]
    /\ batch_nodes' = <<>>
    /\ batch_gh' = <<>>
    /\ store_pc' = "select"
    /\ storeLog' = [ storeLog EXCEPT !.n = @ + 1, !.cause = cause ]

\* `std::mem::take` of both buffers, then `spawn_blocking(flush_batch(bn, bg)).await`:
\* the task stays in the arm until the flush returns.
StartFlush(bn, bg, cause) ==
    /\ flushing' = [ bn |-> bn, bg |-> bg ]
    /\ batch_nodes' = <<>>
    /\ batch_gh' = <<>>
    /\ store_pc' = "flushing"
    /\ storeLog' = [ n |-> storeLog.n + 1, cause |-> cause, size |-> Len(bn) + Len(bg),
                     due |-> now >= storeNextTick,
                     recvd |-> storeLog.recvd + (IF cause = "timer" THEN 0 ELSE 1),
                     upto |-> storeLog.recvd + (IF cause = "timer" THEN 0 ELSE 1),
                     handed |-> storeLog.handed + Len(bn) + Len(bg),
                     nodes_handed |-> storeLog.nodes_handed + Len(bn) ]

\* `spawn_blocking(open_and_init).await` gave Ok(Ok(_)): the buffers and the flush
\* timer are created and the loop is entered; the timer's first tick is due at once.
StoreInitOk ==
    /\ store_pc = "init"
    /\ store_pc' = "select"
    /\ storeNextTick' = now
    /\ UNCHANGED << now, subVars, rx_decoded, nodeVars, rx_nodeavg_for_db, rx_nodeavg_for_gh,
                    ghVars, rx_ghavg_for_db, batch_nodes, batch_gh, flushing, storeLog,
                    db, flushLog, envSent, stalled >>

\* It gave Ok(Err(e)) or Err(e): run_storage returns, dropping both receivers, which
\* closes the two channels and discards what they hold.
StoreInitErr ==
    /\ store_pc = "init"
    /\ store_pc' = "exited"
    /\ rx_nodeavg_for_db' = <<>>
    /\ rx_ghavg_for_db' = <<>>
    /\ UNCHANGED << now, subVars, rx_decoded, nodeVars, rx_nodeavg_for_gh,
                    ghVars, batch_nodes, batch_gh, flushing, storeNextTick, storeLog,
                    db, flushLog, envSent, stalled >>

\* `Some(na) = rx_nodeavg.recv()`: push, then flush when the threshold is reached.
StoreRecvNode ==
    /\ store_pc = "select"
    /\ rx_nodeavg_for_db # <<>>
    /\ rx_nodeavg_for_db' = Tail(rx_nodeavg_for_db)
    /\ LET bn == Append(batch_nodes, Head(rx_nodeavg_for_db))
       IN  IF ReachedBatch(bn, batch_gh)
           THEN StartFlush(bn, batch_gh, "threshold")
           ELSE /\ batch_nodes' = bn
                /\ storeLog' = [ storeLog EXCEPT !.recvd = @ + 1 ]
                /\ UNCHANGED << batch_gh, store_pc, flushing >>
    /\ UNCHANGED << now, subVars, rx_decoded, nodeVars, rx_nodeavg_for_gh, ghVars,
                    rx_ghavg_for_db, storeNextTick, db, flushLog, envSent, stalled >>

\* `Some(ga) = rx_ghavg.recv()`: push, then flush when the threshold is reached.
StoreRecvGh ==
    /\ store_pc = "select"
    /\ rx_ghavg_for_db # <<>>
    /\ rx_ghavg_for_db' = Tail(rx_ghavg_for_db)
    /\ LET bg == Append(batch_gh, Head(rx_ghavg_for_db))
       IN  IF ReachedBatch(batch_nodes, bg)
           THEN StartFlush(batch_nodes, bg, "threshold")
           ELSE /\ batch_gh' = bg
                /\ storeLog' = [ storeLog EXCEPT !.recvd = @ + 1 ]
                /\ UNCHANGED << batch_nodes, store_pc, flushing >>
    /\ UNCHANGED << now, subVars, rx_decoded, nodeVars, rx_nodeavg_for_db,
                    rx_nodeavg_for_gh, ghVars, storeNextTick, db, flushLog, envSent, stalled >>

StoreTickDue == now >= storeNextTick

\* A plausible slip: only the NodeAvg buffer is looked at.
TimerFlushes_nodes_only(bn, bg) == bn # <<>>

\* `!(batch_nodes.is_empty() && batch_gh.is_empty())`
TimerFlushes(bn, bg) == ~(bn = <<>> /\ bg = <<>>)

\* `_ = tick.tick()`: flush whatever is buffered; an `interval` completes its first
\* tick at once and then every FLUSH_EVERY.
StoreTick ==
    /\ store_pc = "select"
    /\ StoreTickDue
    /\ storeNextTick' = storeNextTick + FLUSH_EVERY
    /\ IF TimerFlushes(batch_nodes, batch_gh)
       THEN StartFlush(batch_nodes, batch_gh, "timer")
       ELSE UNCHANGED << batch_nodes, batch_gh, store_pc, flushing, storeLog >>
    /\ UNCHANGED << now, subVars, rx_decoded, nodeVars, rx_nodeavg_for_db,
                    rx_nodeavg_for_gh, ghVars, rx_ghavg_for_db, db, flushLog, envSent, stalled >>

\* flush_batch ran on the blocking pool, meeting the faults `faults`, and the
\* spawn_blocking join handle resolved: the batch is consumed whatever the outcome.
FlushDone(faults) ==
    /\ store_pc = "flushing"
    /\ db' = flush_batch(db, flushing.bn, flushing.bg, now_ms, faults)
    /\ flushLog' = [ n |-> flushLog.n + 1, ts |-> now_ms, faults |-> faults,
                     tried |-> Len(AvgFields) * (Len(flushing.bn) + Len(flushing.bg)),
                     added |-> Cardinality(DOMAIN db'.node_values)
                               + Cardinality(DOMAIN db'.greenhouse_average)
                               - Cardinality(DOMAIN db.node_values)
                               - Cardinality(DOMAIN db.greenhouse_average),
                     aborted |-> flushLog.aborted
                                 + (IF FailsAt(faults, << "batch", 0, "" >>) # {} THEN 1 ELSE 0) ]
    /\ store_pc' = "select"
    /\ flushing' = [ bn |-> <<>>, bg |-> <<>> ]
    /\ UNCHANGED << now, subVars, rx_decoded, nodeVars, rx_nodeavg_for_db,
                    rx_nodeavg_for_gh, ghVars, rx_ghavg_for_db,
                    batch_nodes, batch_gh, storeNextTick, storeLog, envSent, stalled >>

-----------------------------------------------------------------------------
(* SpecStore: a burst of snapshots reaches the StorageWriter *)

\* The burst holds this many NodeAvgs, one per reporting node.
StoreMaxOffered == 600

\* At most this many GhAvgs accompany the burst.
StoreMaxGhOffered == 1

\* The producers of SpecStore offer a snapshot while fewer than this many are queued.
StoreMaxQueued == 1

\* SpecStore's runs end at this instant.
StoreMaxTime == 62

\* A timer period may end ahead of the burst, after its 50th NodeAvg or after its last.
AdvancePoints == { 0, 50, StoreMaxOffered }

\* A GhAvg is offered ahead of the burst or just before its 512th NodeAvg.
GhOfferPoints == { 0, BATCH_SIZE - 1 }

\* The snapshot of a node whose window held one Standard reading (20, humidity 22).
StoreProfile == SingleSampleAvg(<<1, 1>>, F32_20, F32_22, 0)

\* The NodeAggregator's tick: `let _ = tx_nodeavg_db.try_send(na);`, the k-th NodeAvg
\* of the burst being node k's.  Snapshots are offered between two timer ticks.
StoreOfferNode ==
    /\ now >= FirstTickDeadline(0)
    /\ ~StoreTickDue
    /\ envSent.na < StoreMaxOffered
    /\ Len(rx_nodeavg_for_db) < StoreMaxQueued
    /\ rx_nodeavg_for_db' = try_send(rx_nodeavg_for_db, NODEAVG_CAP,
                                     [ StoreProfile EXCEPT !.node_id = envSent.na + 1, !.at = now ])
    /\ envSent' = [ envSent EXCEPT !.na = @ + 1 ]
    /\ UNCHANGED << now, subVars, rx_decoded, nodeVars, rx_nodeavg_for_gh, ghVars,
                    rx_ghavg_for_db, storeVars, stalled >>

\* The GreenhouseAggregator's tick: `let _ = tx_ghavg_db.try_send(ga);`
StoreOfferGh ==
    /\ now >= FirstTickDeadline(0)
    /\ ~StoreTickDue
    /\ envSent.ga < StoreMaxGhOffered
    /\ envSent.na \in GhOfferPoints
    /\ Len(rx_ghavg_for_db) < StoreMaxQueued
    /\ rx_ghavg_for_db' = try_send(rx_ghavg_for_db, GHAVG_CAP,
                                   GhAvgOf(1, [ nodes |-> [ n \in {1} |-> StoreProfile ] ], {1}))
    /\ envSent' = [ envSent EXCEPT !.ga = @ + 1 ]
    /\ UNCHANGED << now, subVars, rx_decoded, nodeVars, rx_nodeavg_for_db,
                    rx_nodeavg_for_gh, ghVars, storeVars, stalled >>

\* Time passes, at one of the AdvancePoints, once the StorageWriter has nothing ready
\* to handle.
StoreAdvance ==
    /\ ~StoreTickDue
    /\ store_pc = "select"
    /\ rx_nodeavg_for_db = <<>> /\ rx_ghavg_for_db = <<>>
    /\ envSent.na \in AdvancePoints
    /\ AdvanceClock(FLUSH_EVERY, StoreMaxTime)
    /\ UNCHANGED << subVars, rx_decoded, nodeVars, rx_nodeavg_for_db, rx_nodeavg_for_gh,
                    ghVars, rx_ghavg_for_db, storeVars, envSent, stalled >>

NextStore ==
    \/ StoreInitOk
    \/ StoreOfferNode
    \/ StoreOfferGh
    \/ StoreRecvNode
    \/ StoreRecvGh
    \/ StoreTick
    \/ FlushDone({})
    \/ StoreAdvance

SpecStore == Init /\ [][NextStore]_vars

-----------------------------------------------------------------------------
(* Claims about the StorageWriter *)

Buffered == Len(batch_nodes) + Len(batch_gh)

\* Between steps fewer than 512 snapshots are buffered while the task selects, none
\* while it flushes; a flush started by a receive took exactly 512, and when it is the
\* first flush these are the first 512 snapshots received.
BatchBounded ==
    /\ Buffered <= 512
    /\ store_pc = "select" => Buffered < 512
    /\ store_pc = "flushing" => Buffered = 0 /\ Len(flushing.bn) + Len(flushing.bg) >= 1
    /\ (storeLog.n > 0 /\ storeLog.cause = "threshold") => storeLog.size = 512
    /\ (storeLog.n = 1 /\ storeLog.cause = "threshold") => storeLog.upto = 512

\* A receive that brings the buffered count to 512 starts the flush in the same step,
\* whether or not the timer is due, and the flush takes both buffers whole.
FlushTakesAll ==
    (store_pc = "select" /\ store_pc' = "flushing") =>
        /\ batch_nodes' = <<>> /\ batch_gh' = <<>>
        /\ \/ /\ rx_nodeavg_for_db # <<>>
              /\ rx_nodeavg_for_db' = Tail(rx_nodeavg_for_db)
              /\ flushing' = [ bn |-> Append(batch_nodes, Head(rx_nodeavg_for_db)), bg |-> batch_gh ]
              /\ Buffered + 1 = 512
           \/ /\ rx_ghavg_for_db # <<>>
              /\ rx_ghavg_for_db' = Tail(rx_ghavg_for_db)
              /\ flushing' = [ bn |-> batch_nodes, bg |-> Append(batch_gh, Head(rx_ghavg_for_db)) ]
              /\ Buffered + 1 = 512
           \/ /\ storeNextTick' # storeNextTick
              /\ flushing' = [ bn |-> batch_nodes, bg |-> batch_gh ]

ThresholdFlushesAtOnce ==
    (store_pc = "select" /\ Buffered + 1 >= 512
        /\ (Len(rx_nodeavg_for_db') < Len(rx_nodeavg_for_db) \/ Len(rx_ghavg_for_db') < Len(rx_ghavg_for_db)))
    => store_pc' = "flushing"

\* While a flush runs nothing is received: the buffers stay empty and the channels
\* lose no message.
NoReceiveWhileFlushing ==
    store_pc = "flushing" =>
        /\ batch_nodes' = batch_nodes /\ batch_gh' = batch_gh
        /\ Len(rx_nodeavg_for_db') >= Len(rx_nodeavg_for_db)
        /\ Len(rx_ghavg_for_db') >= Len(rx_ghavg_for_db)

\* C10: a receive that makes the combined buffered count reach 512 takes both buffers
\* whole and flushes them at once, before any further receive and without waiting for
\* the timer; the combined count never exceeds 512 and is 0 once a flush has started.
C10_FlushAtBatchSize ==
    /\ []BatchBounded
    /\ [][FlushTakesAll /\ ThresholdFlushesAtOnce /\ NoReceiveWhileFlushing]_vars

\* Of 600 NodeAvgs offered within one timer period the first 512 were flushed by the
\* threshold alone, the other 88 being buffered or still to come with no timer tick due.
C10_Witness ==
    /\ envSent.na = 600
    /\ storeLog.n = 1
    /\ storeLog.cause = "threshold"
    /\ storeLog.size = 512
    /\ ~storeLog.due
    /\ Len(batch_nodes) = 88
    /\ now < storeNextTick

\* Every snapshot received so far is either buffered or was handed to a flush, and
\* the k-th NodeAvg received (node k's) sits in the one place its rank assigns: the
\* flushes took the NodeAvgs 1 .. nodes_handed, the running flush the last of these,
\* and the buffer holds the ones after them, in order.
EachHandedOnce ==
    /\ storeLog.recvd = storeLog.handed + Buffered
    /\ \A i \in 1..Len(batch_nodes) : batch_nodes[i].node_id = storeLog.nodes_handed + i
    /\ \A i \in 1..Len(flushing.bn) :
         flushing.bn[i].node_id = storeLog.nodes_handed - Len(flushing.bn) + i

\* A handled timer tick with anything buffered hands both buffers whole to a flush
\* and leaves them empty; with both buffers empty it starts no flush.
TimerFlushesBuffered ==
    storeNextTick' # storeNextTick =>
        IF Buffered > 0
        THEN /\ store_pc' = "flushing"
             /\ flushing' = [ bn |-> batch_nodes, bg |-> batch_gh ]
             /\ batch_nodes' = <<>> /\ batch_gh' = <<>>
             /\ storeLog'.n = storeLog.n + 1
        ELSE /\ store_pc' = "select"
             /\ UNCHANGED << flushing, storeLog, db, flushLog >>

\* A flush consumes what it was handed: when it returns nothing goes back to the
\* buffers.
FlushConsumes ==
    (store_pc = "flushing" /\ store_pc' = "select") =>
        /\ flushing' = [ bn |-> <<>>, bg |-> <<>> ]
        /\ UNCHANGED << batch_nodes, batch_gh >>

\* C11: every snapshot the StorageWriter received is handed to exactly one flush, at
\* the latest by the first timer tick handled after it was buffered (a handled tick
\* leaves nothing buffered), and a tick with both buffers empty starts no flush.
C11_EachSnapshotFlushedOnce ==
    /\ []EachHandedOnce
    /\ [][TimerFlushesBuffered /\ FlushConsumes]_vars

\* The 88 NodeAvgs left over by the threshold flush were handed to a flush by the
\* next timer tick, so that all 600 received were handed over.
C11_Witness ==
    /\ storeLog.n >= 2
    /\ storeLog.cause = "timer"
    /\ storeLog.size = 88
    /\ storeLog.nodes_handed = 600
    /\ Buffered = 0

-----------------------------------------------------------------------------
(* SpecFlush: a few snapshots reach the StorageWriter and its flushes meet faults *)

\* At most this many NodeAvgs are offered.
FlushMaxOffered == 2

\* At most this many GhAvgs are offered.
FlushMaxGhOffered == 2

\* At most this many snapshots are offered in all.
FlushMaxSnapshots == 2

\* SpecFlush's runs end at this instant.
FlushMaxTime == 61

\* The NodeAvgs offered: two of node (1, 1) with different values and one of node
\* (1, 2) whose floats are 20.125 and whose humidity is absent.
FlushProfiles ==
    { SingleSampleAvg(<<1, 1>>, F32_20, F32_22, 0),
      SingleSampleAvg(<<1, 1>>, F32_22, F32_20_125, 0),
      SingleSampleAvg(<<1, 2>>, F32_20_125, F32_Inf, 0) }

\* The GhAvgs offered: greenhouse 1 averaged over one of the profiles.
FlushGhProfiles == { GhAvgOf(1, [ nodes |-> [ n \in {1} |-> na ] ], {1}) : na \in FlushProfiles }

BatchFault == << "batch", 0, "" >>

\* The faults one flush may meet: none, or one failing statement: the open, the
\* begin, the commit, an ensure of the first NodeAvg, a row write of the first or
\* second NodeAvg, or a row write of the first GhAvg.
FlushFaults ==
    { {} }
    \cup { { << BatchFault, s >> } : s \in { "open", "begin", "commit" } }
    \cup { { << << "node", 1, "" >>, s >> } : s \in { "ensure_greenhouse", "ensure_node" } }
    \cup { { << << "node", 1, "air_temp_c" >>, "ensure_sensor" >> },
           { << << "node", 2, "air_rh_pct" >>, "insert" >> } }
    \cup { { << << "gh", 1, "air_temp_c" >>, s >> } :
             s \in { "ensure_greenhouse", "ensure_sensor", "insert" } }

\* The NodeAggregator's tick: `let _ = tx_nodeavg_db.try_send(na);`
FlushOfferNode(na) ==
    /\ now >= FirstTickDeadline(0)
    /\ envSent.na < FlushMaxOffered
    /\ envSent.na + envSent.ga < FlushMaxSnapshots
    /\ Len(rx_nodeavg_for_db) < StoreMaxQueued
    /\ rx_nodeavg_for_db' = try_send(rx_nodeavg_for_db, NODEAVG_CAP, [ na EXCEPT !.at = now ])
    /\ envSent' = [ envSent EXCEPT !.na = @ + 1 ]
    /\ UNCHANGED << now, subVars, rx_decoded, nodeVars, rx_nodeavg_for_gh, ghVars,
                    rx_ghavg_for_db, storeVars, stalled >>

\* The GreenhouseAggregator's tick: `let _ = tx_ghavg_db.try_send(ga);`
FlushOfferGh(ga) ==
    /\ now >= FirstTickDeadline(0)
    /\ envSent.ga < FlushMaxGhOffered
    /\ envSent.na + envSent.ga < FlushMaxSnapshots
    /\ Len(rx_ghavg_for_db) < StoreMaxQueued
    /\ rx_ghavg_for_db' = try_send(rx_ghavg_for_db, GHAVG_CAP, ga)
    /\ envSent' = [ envSent EXCEPT !.ga = @ + 1 ]
    /\ UNCHANGED << now, subVars, rx_decoded, nodeVars, rx_nodeavg_for_db,
                    rx_nodeavg_for_gh, ghVars, storeVars, stalled >>

\* Time passes while the StorageWriter selects with nothing queued.  Once snapshots
\* flow the task may be late for its timer: an `interval` then completes the missed
\* ticks one after the other (MissedTickBehavior::Burst), within one clock reading.
FlushAdvance ==
    /\ store_pc = "select"
    /\ rx_nodeavg_for_db = <<>> /\ rx_ghavg_for_db = <<>>
    /\ ~StoreTickDue \/ now >= FirstTickDeadline(0)
    /\ AdvanceClock(FLUSH_EVERY, FlushMaxTime)
    /\ UNCHANGED << subVars, rx_decoded, nodeVars, rx_nodeavg_for_db, rx_nodeavg_for_gh,
                    ghVars, rx_ghavg_for_db, storeVars, envSent, stalled >>

NextFlush ==
    \/ StoreInitOk
    \/ \E na \in FlushProfiles : FlushOfferNode(na)
    \/ \E ga \in FlushGhProfiles : FlushOfferGh(ga)
    \/ StoreRecvNode
    \/ StoreRecvGh
    \/ StoreTick
    \/ \E faults \in FlushFaults : FlushDone(faults)
    \/ FlushAdvance

SpecFlush == Init /\ [][NextFlush]_vars

-----------------------------------------------------------------------------
(* Claims about flush_batch *)

\* The step on which a flush returns.
FlushReturns == store_pc = "flushing" /\ store_pc' = "select"

\* The flush met a failing open, begin or commit.
Aborted(f) == FailsAt(f, BatchFault) # {}

\* The UNIQUE key of the row of field `key` of snapshot na / ga, with the ids of the
\* tables d.
NodeRowKey(d, ts, na, key) ==
    << ts, d.node_name[<< na.greenhouse_id, na.node_id >>].id, d.sensor_type[key].id,
       "rolling_60s" >>

GhRowKey(d, ts, ga, key) == << ts, ga.greenhouse_id, d.sensor_type[key].id, "rolling_60s" >>

\* No statement of the row of field `key` of the i-th NodeAvg / GhAvg failed.
NodeRowWritten(f, i, key) ==
    FailsAt(f, << "node", i, "" >>) = {} /\ FailsAt(f, << "node", i, key >>) = {}

GhRowWritten(f, i, key) == FailsAt(f, << "gh", i, key >>) = {}

\* The i-th NodeAvg / GhAvg is the first of the batch to write the row of its owner
\* and field.
FirstNodeRow(f, bn, i, key) ==
    \A j \in 1..(i - 1) :
        (bn[j].greenhouse_id = bn[i].greenhouse_id /\ bn[j].node_id = bn[i].node_id)
            => ~NodeRowWritten(f, j, key)

FirstGhRow(f, bg, i, key) ==
    \A j \in 1..(i - 1) : bg[j].greenhouse_id = bg[i].greenhouse_id => ~GhRowWritten(f, j, key)

\* A flush leaves every stored fact row as it was, whatever the batch holds.
ExistingRowsKept ==
    FlushReturns =>
        /\ \A k \in DOMAIN db.node_values :
             k \in DOMAIN db'.node_values /\ db'.node_values[k] = db.node_values[k]
        /\ \A k \in DOMAIN db.greenhouse_average :
             k \in DOMAIN db'.greenhouse_average
             /\ db'.greenhouse_average[k] = db.greenhouse_average[k]

\* Within one batch the first row of a key is the one stored.
FirstRowWins ==
    (FlushReturns /\ ~Aborted(flushLog'.faults)) =>
        LET f == flushLog'.faults
            ts == flushLog'.ts
        IN  /\ \A i \in 1..Len(flushing.bn) : \A key \in AvgFieldSet :
                 (NodeRowWritten(f, i, key) /\ FirstNodeRow(f, flushing.bn, i, key)
                    /\ NodeRowKey(db', ts, flushing.bn[i], key) \notin DOMAIN db.node_values)
                 => db'.node_values[NodeRowKey(db', ts, flushing.bn[i], key)].value
                      = r2(flushing.bn[i].f[key])
            /\ \A i \in 1..Len(flushing.bg) : \A key \in AvgFieldSet :
                 (GhRowWritten(f, i, key) /\ FirstGhRow(f, flushing.bg, i, key)
                    /\ GhRowKey(db', ts, flushing.bg[i], key) \notin DOMAIN db.greenhouse_average)
                 => db'.greenhouse_average[GhRowKey(db', ts, flushing.bg[i], key)].value
                      = r2(flushing.bg[i].f[key])

\* Flushing the batch of a fault-free flush once more, under the same timestamp,
\* gives the tables the first flush left.
ReflushIsNoOp ==
    (FlushReturns /\ flushLog'.faults = {}) =>
        flush_batch(db', flushing.bn, flushing.bg, flushLog'.ts, {}) = db'

\* C12: inserting a fact row whose (timestamp, owner, sensor kind, aggregation kind)
\* is already stored changes nothing: the stored row keeps its id and value, the row
\* count does not grow, and flushing the same rows twice gives the same tables as
\* flushing them once.
C12_InsertIdempotent == [][ExistingRowsKept /\ FirstRowWins /\ ReflushIsNoOp]_vars

\* A second flush under the timestamp of the first carried another snapshot of node
\* (1, 1): none of its 15 rows was added and the 15 stored rows are the first's.
C12_Witness ==
    /\ flushLog.n = 2
    /\ flushLog.faults = {}
    /\ flushLog.tried = 15
    /\ flushLog.added = 0
    /\ storeLog.nodes_handed = 2
    /\ Cardinality(DOMAIN db.node_values) = 15
    /\ Cardinality(DOMAIN db.node_name) = 1
    /\ \E k \in DOMAIN db.node_values : db.node_values[k].value = Some(Rat(20, 1))
    /\ \E k \in DOMAIN db.node_values : db.node_values[k].value = Some(Rat(22, 1))

\* With no failing open, begin or commit, every row none of whose statements failed
\* is stored after the flush, and every row the flush added is such a row.
RowFaultSkipsOnlyThatRow ==
    (FlushReturns /\ ~Aborted(flushLog'.faults)) =>
        LET f == flushLog'.faults
            ts == flushLog'.ts
            bn == flushing.bn
            bg == flushing.bg
        IN  /\ \A i \in 1..Len(bn) : \A key \in AvgFieldSet :
                 NodeRowWritten(f, i, key) =>
                    /\ << bn[i].greenhouse_id, bn[i].node_id >> \in DOMAIN db'.node_name
                    /\ key \in DOMAIN db'.sensor_type
                    /\ NodeRowKey(db', ts, bn[i], key) \in DOMAIN db'.node_values
            /\ \A i \in 1..Len(bg) : \A key \in AvgFieldSet :
                 GhRowWritten(f, i, key) =>
                    /\ key \in DOMAIN db'.sensor_type
                    /\ GhRowKey(db', ts, bg[i], key) \in DOMAIN db'.greenhouse_average
            /\ \A k \in DOMAIN db'.node_values \ DOMAIN db.node_values :
                 \E i \in 1..Len(bn) : \E key \in AvgFieldSet :
                    NodeRowWritten(f, i, key) /\ k = NodeRowKey(db', ts, bn[i], key)
            /\ \A k \in DOMAIN db'.greenhouse_average \ DOMAIN db.greenhouse_average :
                 \E i \in 1..Len(bg) : \E key \in AvgFieldSet :
                    GhRowWritten(f, i, key) /\ k = GhRowKey(db', ts, bg[i], key)

\* C13: within a flush a failing row write (sensor ensure, node ensure, greenhouse
\* ensure or fact insert) skips only that row, or that snapshot's rows: every other
\* row of the batch is written, with its rounded value, and the transaction commits.
C13_RowFaultSkipsRow == [][RowFaultSkipsOnlyThatRow /\ FirstRowWins]_vars

\* The insert of one row of the second of two snapshots failed: of the 30 rows 29
\* were stored.
C13_Witness ==
    /\ flushLog.n = 1
    /\ flushLog.faults = { << << "node", 2, "air_rh_pct" >>, "insert" >> }
    /\ flushLog.tried = 30
    /\ flushLog.added = 29
    /\ Cardinality(DOMAIN db.node_name) = 2

\* A flush that met a failing open, begin or commit leaves the tables as they were,
\* puts nothing back in the buffers or the channels, and returns the task to its
\* select loop with both buffers empty.
BatchFaultLosesBatch ==
    (FlushReturns /\ Aborted(flushLog'.faults)) =>
        /\ db' = db
        /\ batch_nodes' = <<>> /\ batch_gh' = <<>>
        /\ flushing' = [ bn |-> <<>>, bg |-> <<>> ]
        /\ UNCHANGED << rx_nodeavg_for_db, rx_ghavg_for_db, storeLog >>

\* After a flush returned, however it ended, the task receives what is queued.
ReceivesAfterFlush ==
    (store_pc = "select" /\ rx_nodeavg_for_db # <<>>) => ENABLED StoreRecvNode

\* C14: a failing open, begin or commit persists none of the batch's rows; the batch
\* is neither re-buffered nor retried, and the StorageWriter goes on with empty
\* buffers and handles later snapshots as usual.
C14_BatchFaultLosesBatch == [][BatchFaultLosesBatch]_vars /\ []ReceivesAfterFlush

\* The first flush met a failing commit and lost its snapshot; the snapshot received
\* after it was flushed and its 15 rows are the only ones stored.
C14_Witness ==
    /\ flushLog.n = 2
    /\ flushLog.aborted = 1
    /\ flushLog.faults = {}
    /\ flushLog.added = 15
    /\ storeLog.handed = 2
    /\ Cardinality(DOMAIN db.node_values) = 15

-----------------------------------------------------------------------------
(* SpecStall: the whole pipeline, with one task that stops making progress *)

\* The broker delivers at most this many payloads.
StallMaxPublished == 258

\* SpecStall's runs end at this instant (130 windows).
StallMaxTime == 7800

\* The task that stops: the StorageWriter (its first flush never returns), the
\* GreenhouseAggregator or the NodeAggregator (never polled again), or none.
StallCases == { "none", "storage", "greenhouse", "node" }

InitStall == InitTasks /\ stalled \in StallCases

\* A run with a stalled consumer of NodeAvgs lasts until its channel has filled; the
\* other runs last three windows.
StallHorizon ==
    IF stalled \in { "storage", "greenhouse" } THEN StallMaxTime ELSE Min(3 * WINDOW, StallMaxTime)

\* Node (1, 1) reports the same reading every time.
StallPayloads == { EncodeLayout(StandardLayout, 1, Reading(StandardLayout, 1, 1, F32_20, F32_22)) }

\* The node reports once per window; when the NodeAggregator is the stalled task the
\* reports come in one burst.
PublishDue == stalled = "node" \/ lastPublish.n * WINDOW <= now

StallPublish(p) == PublishDue /\ PollPublishUpTo(p, StallMaxPublished)

NodeRuns == stalled # "node"

GhRuns == stalled # "greenhouse"

\* The instants at which a running task's timer is due next.
Deadlines ==
    (IF NodeRuns THEN { nodeNextTick } ELSE {})
    \cup (IF GhRuns THEN { ghNextTick } ELSE {})
    \cup (IF store_pc = "select" THEN { storeNextTick } ELSE {})

\* The subscriber and the running aggregators have handled what is ready for them.
UpstreamIdle ==
    /\ sub_pc = "poll"
    /\ ~(PublishDue /\ lastPublish.n < StallMaxPublished)
    /\ NodeRuns => (rx_decoded = <<>> /\ ~NodeTickDue)
    /\ GhRuns => (rx_nodeavg_for_gh = <<>> /\ ~GhTickDue)

\* The scheduler of SpecStall polls the StorageWriter's timer arm last: after the
\* upstream tasks, and after the receive arms have emptied the two storage channels.
StallStoreTick ==
    /\ UpstreamIdle
    /\ rx_nodeavg_for_db = <<>> /\ rx_ghavg_for_db = <<>>
    /\ StoreTick

\* Time passes to the next timer deadline once every running task has handled what
\* is ready for it and the broker has delivered what is due.
StallAdvance ==
    /\ UpstreamIdle
    /\ store_pc # "init"
    /\ store_pc = "select" => (rx_nodeavg_for_db = <<>> /\ rx_ghavg_for_db = <<>> /\ ~StoreTickDue)
    /\ store_pc = "flushing" => stalled = "storage"
    /\ Deadlines # {}
    /\ \E t \in Deadlines :
         /\ \A u \in Deadlines : t <= u
         /\ AdvanceClock(t - now, StallHorizon)
    /\ UNCHANGED << subVars, rx_decoded, nodeVars, rx_nodeavg_for_db, rx_nodeavg_for_gh,
                    ghVars, rx_ghavg_for_db, storeVars, envSent, stalled >>

NextStall ==
    \/ SubscribeOk
    \/ \E p \in StallPayloads : StallPublish(p)
    \/ NodeRuns /\ NodeRecv
    \/ NodeRuns /\ NodeTick
    \/ GhRuns /\ GhRecv
    \/ GhRuns /\ GhTick
    \/ StoreInitOk
    \/ stalled = "none" /\ StoreInitErr
    \/ StoreRecvNode
    \/ StoreRecvGh
    \/ StallStoreTick
    \/ stalled # "storage" /\ FlushDone({})
    \/ StallAdvance

SpecStall == InitStall /\ [][NextStall]_vars

-----------------------------------------------------------------------------
(* Claims about the channels between the stages *)

\* The queue after the messages of `out` were offered to it in order: those that found
\* room, behind what was queued.
Delivered(ch, cap, out) == ch \o SubSeq(out, 1, Min(Len(out), cap - Len(ch)))

\* C15: at a tick each destination of a NodeAvg gets it or drops it on its own
\* account: the greenhouse channel receives the snapshots it has room for whatever the
\* state of the storage channel, and the storage channel likewise, within the tick.
C15_DestinationsIndependent ==
    [][ nodeNextTick' # nodeNextTick =>
          /\ rx_nodeavg_for_gh' = Delivered(rx_nodeavg_for_gh, 128, nodeTickLog'.out)
          /\ rx_nodeavg_for_db' = IF store_pc = "exited" THEN rx_nodeavg_for_db
                                  ELSE Delivered(rx_nodeavg_for_db, 128, nodeTickLog'.out) ]_vars

\* With the StorageWriter stuck in a flush its channel is full of older snapshots;
\* the tick's NodeAvg was dropped for storage and is queued for the greenhouse
\* aggregator.
C15_Witness ==
    /\ stalled = "storage"
    /\ Len(rx_nodeavg_for_db) = 128
    /\ Len(nodeTickLog.out) = 1
    /\ rx_nodeavg_for_gh = nodeTickLog.out
    /\ \A i \in 1..128 : rx_nodeavg_for_db[i].at < nodeTickLog.out[1].at

\* No channel ever holds more than its capacity.
WithinCapacity ==
    /\ Len(rx_decoded) <= 256
    /\ Len(rx_nodeavg_for_db) <= 128
    /\ Len(rx_nodeavg_for_gh) <= 128
    /\ Len(rx_ghavg_for_db) <= 64

\* A send to a full channel leaves the channel as it is.
FullChannelDropsIncoming ==
    /\ (lastPublish' # lastPublish /\ Len(rx_decoded) = 256) => rx_decoded' = rx_decoded
    /\ (nodeNextTick' # nodeNextTick /\ Len(rx_nodeavg_for_db) = 128)
         => rx_nodeavg_for_db' = rx_nodeavg_for_db
    /\ (nodeNextTick' # nodeNextTick /\ Len(rx_nodeavg_for_gh) = 128)
         => rx_nodeavg_for_gh' = rx_nodeavg_for_gh
    /\ (ghNextTick' # ghNextTick /\ Len(rx_ghavg_for_db) = 64)
         => rx_ghavg_for_db' = rx_ghavg_for_db

\* A step extends the queue q at its back, or takes its front message, or leaves it.
QueueStep(q, r) ==
    \/ Len(r) >= Len(q) /\ SubSeq(r, 1, Len(q)) = q
    \/ q # <<>> /\ r = Tail(q)

\* The queued messages keep their places: a producer's step only appends, a
\* consumer's step only takes the front (a channel whose receiver is dropped at the
\* exit of run_storage is discarded whole).
QueuedKeptInOrder ==
    /\ QueueStep(rx_decoded, rx_decoded')
    /\ QueueStep(rx_nodeavg_for_gh, rx_nodeavg_for_gh')
    /\ store_pc' # "exited" =>
         /\ QueueStep(rx_nodeavg_for_db, rx_nodeavg_for_db')
         /\ QueueStep(rx_ghavg_for_db, rx_ghavg_for_db')

\* C16: no channel between two stages holds more messages than its capacity (256,
\* 128, 128, 64), and a send to a full channel drops the incoming message: the queued
\* messages and their order stay, the oldest is not evicted.
C16_BoundedDropIncoming ==
    /\ []WithinCapacity
    /\ [][FullChannelDropsIncoming /\ QueuedKeptInOrder]_vars

\* With the NodeAggregator stalled the 258th sample met a channel holding 256: it was
\* decoded and dropped, the channel holding what it held before.
C16_Witness ==
    /\ stalled = "node"
    /\ lastPublish.n = 258
    /\ IsSome(lastPublish.res)
    /\ Len(lastPublish.before) = 256
    /\ rx_decoded = lastPublish.before

-----------------------------------------------------------------------------
(* Claims about a failed database initialisation *)

\* Once run_storage has returned it takes no further step and nothing was or is
\* persisted: no flush was started, the tables hold no row, and a send to either of
\* its channels fails, leaving it empty.
ExitedStorageIsInert ==
    store_pc = "exited" =>
        /\ db = EmptyDb
        /\ flushLog.n = 0 /\ storeLog.n = 0 /\ storeLog.recvd = 0
        /\ batch_nodes = <<>> /\ batch_gh = <<>>
        /\ rx_nodeavg_for_db = <<>> /\ rx_ghavg_for_db = <<>>

ExitedForGood == store_pc = "exited" => store_pc' = "exited"

\* The aggregators' ticks complete as usual: the NodeAvgs go to the greenhouse
\* aggregator, the sends to the closed channels leave them empty, and the next tick
\* is one window later.
AggregatorsRunWithoutStorage ==
    store_pc = "exited" =>
        /\ nodeNextTick' # nodeNextTick =>
              /\ nodeNextTick' = nodeNextTick + 60
              /\ rx_nodeavg_for_gh' = Delivered(rx_nodeavg_for_gh, 128, nodeTickLog'.out)
              /\ rx_nodeavg_for_db' = <<>>
        /\ ghNextTick' # ghNextTick =>
              /\ ghNextTick' = ghNextTick + 60
              /\ rx_ghavg_for_db' = <<>>

\* C20: when the database initialisation fails run_storage exits: no transaction is
\* ever opened and nothing is persisted; the NodeAggregator and the
\* GreenhouseAggregator go on receiving and ticking, their sends to the storage
\* channels failing without holding them up.
C20_InitFailureStopsStorageOnly ==
    /\ []ExitedStorageIsInert
    /\ [][ExitedForGood /\ AggregatorsRunWithoutStorage]_vars

\* After the failed initialisation both aggregators ticked twice and emitted: the
\* last NodeAvg and GhAvg went nowhere near the store.
C20_Witness ==
    /\ store_pc = "exited"
    /\ nodeTickLog.n >= 2 /\ Len(nodeTickLog.out) = 1
    /\ ghTickLog.n >= 2 /\ Len(ghTickLog.out) = 1
    /\ db = EmptyDb

-----------------------------------------------------------------------------
(* SpecPipe: two readings of node (1, 1) travel from the broker to the store *)

\* The broker delivers at most this many payloads.
PipeMaxPublished == 2

\* SpecPipe's runs end at this instant.
PipeMaxTime == 62

\* The readings: every float 20, 22 or 20.125 (humidity 22).
PipePayloads ==
    { EncodeLayout(StandardLayout, 1, Reading(StandardLayout, 1, 1, air, F32_22)) :
        air \in { F32_20, F32_22, F32_20_125 } }

\* The instants at which the node reports.
PipePublishAt == { 0, 30 }

PipePublish(p) ==
    /\ now \in PipePublishAt
    /\ rx_decoded = <<>>
    /\ PollPublishUpTo(p, PipeMaxPublished)

\* Time passes to the next timer deadline once every task has handled what is ready.
PipeAdvance ==
    /\ sub_pc = "poll"
    /\ rx_decoded = <<>> /\ ~NodeTickDue
    /\ rx_nodeavg_for_gh = <<>> /\ ~GhTickDue
    /\ store_pc = "select"
    /\ rx_nodeavg_for_db = <<>> /\ rx_ghavg_for_db = <<>> /\ ~StoreTickDue
    /\ AdvanceClock(Min(Min(nodeNextTick, ghNextTick), storeNextTick) - now, PipeMaxTime)
    /\ UNCHANGED << subVars, rx_decoded, nodeVars, rx_nodeavg_for_db, rx_nodeavg_for_gh,
                    ghVars, rx_ghavg_for_db, storeVars, envSent, stalled >>

NextPipe ==
    \/ SubscribeOk
    \/ \E p \in PipePayloads : PipePublish(p)
    \/ NodeRecv
    \/ NodeTick
    \/ GhRecv
    \/ GhTick
    \/ StoreInitOk
    \/ StoreRecvNode
    \/ StoreRecvGh
    \/ StoreTick
    \/ FlushDone({})
    \/ PipeAdvance

SpecPipe == Init /\ [][NextPipe]_vars

-----------------------------------------------------------------------------
(* Claims about where values are rounded *)

\* The values a tick put in its NodeAvgs and GhAvgs are the exact means: of the
\* window's finite sample values, and of the NodeAvg values as they were received.
EmittedUnrounded ==
    /\ NodeTicked =>
         \A i \in 1..Len(nodeTickLog.out) :
             LET na  == nodeTickLog.out[i]
                 win == nodeTickLog.post[NodeKey(na)]
             IN  \A f \in AvgFieldSet :
                     IsFiniteMean(na.f[f], win.buf, f, CarryingOfKind(win.buf, f, win.kind))
    /\ GhTicked =>
         \A i \in 1..Len(ghTickLog.out) :
             LET ga == ghTickLog.out[i]
             IN  \A f \in AvgFieldSet :
                     GhIsMean(ga.f[f], ga.greenhouse_id, f, GhCarrying(ga.greenhouse_id, f))

\* The channels and the buffers hand the snapshots on as they were emitted.
CarriedAsEmitted ==
    /\ nodeNextTick' # nodeNextTick =>
         /\ rx_nodeavg_for_db' = Delivered(rx_nodeavg_for_db, 128, nodeTickLog'.out)
         /\ rx_nodeavg_for_gh' = Delivered(rx_nodeavg_for_gh, 128, nodeTickLog'.out)
    /\ ghNextTick' # ghNextTick =>
         rx_ghavg_for_db' = Delivered(rx_ghavg_for_db, 64, ghTickLog'.out)
    /\ Len(rx_nodeavg_for_gh') < Len(rx_nodeavg_for_gh) =>
         LET na == Head(rx_nodeavg_for_gh)
         IN  gh'[na.greenhouse_id].nodes[na.node_id] = na
    /\ Len(rx_nodeavg_for_db') < Len(rx_nodeavg_for_db) =>
         batch_nodes' \o flushing'.bn = Append(batch_nodes, Head(rx_nodeavg_for_db))
    /\ Len(rx_ghavg_for_db') < Len(rx_ghavg_for_db) =>
         batch_gh' \o flushing'.bg = Append(batch_gh, Head(rx_ghavg_for_db))

\* v is the carried value c rounded to 2 decimals: both absent, or v a whole number
\* of hundredths at most half a hundredth away from c.
IsRounded2(v, c) ==
    IF c = None THEN v = None
    ELSE /\ IsSome(v)
         /\ 100 % v.val.den = 0
         /\ 2 * Abs(100 * c.val.num * v.val.den - 100 * v.val.num * c.val.den)
              <= c.val.den * v.val.den

\* Every row a flush adds stores the 2-decimal rounding of the value its snapshot
\* carried.
StoredRounded ==
    FlushReturns =>
        LET ts == flushLog'.ts
        IN  /\ \A i \in 1..Len(flushing.bn) : \A key \in AvgFieldSet :
                 (FirstNodeRow({}, flushing.bn, i, key)
                    /\ NodeRowKey(db', ts, flushing.bn[i], key) \notin DOMAIN db.node_values)
                 => IsRounded2(db'.node_values[NodeRowKey(db', ts, flushing.bn[i], key)].value,
                               flushing.bn[i].f[key])
            /\ \A i \in 1..Len(flushing.bg) : \A key \in AvgFieldSet :
                 (FirstGhRow({}, flushing.bg, i, key)
                    /\ GhRowKey(db', ts, flushing.bg[i], key) \notin DOMAIN db.greenhouse_average)
                 => IsRounded2(db'.greenhouse_average[GhRowKey(db', ts, flushing.bg[i], key)].value,
                               flushing.bg[i].f[key])

\* C19: values are rounded to 2 decimals only on their way into the store: the
\* NodeAvg and GhAvg fields on the channels, and the NodeAvg values the
\* GreenhouseAggregator averages, are the unrounded means, and a stored value is the
\* carried mean rounded to 2 decimals.
C19_RoundedOnlyAtStore ==
    /\ []EmittedUnrounded
    /\ [][CarriedAsEmitted /\ StoredRounded]_vars

\* Readings 20.0 and 20.125 in one window: the NodeAvg and the GhAvg carry 20.0625 and
\* the store holds 20.06 for both.
C19_Witness ==
    /\ nodeTickLog.n = 1
    /\ Len(nodeTickLog.out) = 1
    /\ nodeTickLog.out[1].f["air_temp_c"] = Some(Rat(321, 16))
    /\ ghTickLog.n = 1
    /\ Len(ghTickLog.out) = 1
    /\ ghTickLog.out[1].f["air_temp_c"] = Some(Rat(321, 16))
    /\ \E k \in DOMAIN db.node_values : db.node_values[k].value = Some(Rat(1003, 50))
    /\ \E k \in DOMAIN db.greenhouse_average :
         db.greenhouse_average[k].value = Some(Rat(1003, 50))

-----------------------------------------------------------------------------
(* SpecStallLive: SpecStall with every running task polled again and again *)

\* The runtime polls a task that is ready: a running task's enabled arm is taken in
\* the end.  The stalled task gets no such promise.
\* The tick arm of a running node aggregator: NodeTick's guard and its re-arming of
\* the interval.  Among the steps of NextStall only NodeTick moves nodeNextTick, and a
\* tick over any set of windows completes, so this is enabled exactly when NodeTick is.
NodeTickFires ==
    /\ NodeRuns
    /\ NodeTickDue
    /\ try_send_ready(rx_nodeavg_for_db, NODEAVG_CAP)
    /\ try_send_ready(rx_nodeavg_for_gh, NODEAVG_CAP)
    /\ nodeNextTick' = nodeNextTick + WINDOW

\* The tick arm of a running greenhouse aggregator, likewise for GhTick and ghNextTick.
GhTickFires ==
    /\ GhRuns
    /\ GhTickDue
    /\ try_send_ready(rx_ghavg_for_db, GHAVG_CAP)
    /\ ghNextTick' = ghNextTick + WINDOW

\* The broker has a payload for the subscriber.
PublishPending == PublishDue /\ lastPublish.n < StallMaxPublished

\* StallPublish's guard: it is enabled exactly when this holds, every payload decoding
\* to some result.
PublishReady ==
    /\ sub_pc = "poll"
    /\ PublishPending
    /\ try_send_ready(rx_decoded, DECODED_CAP)

\* Among the steps of NextStall only StallPublish counts a payload.
PublishFires == lastPublish'.n = lastPublish.n + 1

\* tokio polls every spawned task that is ready: the subscriber's event loop and the
\* recv and tick arms of each running aggregator.  Nothing is assumed of storage.
\* The second conjunct is WF_vars(\E p \in StallPayloads : StallPublish(p)) with its
\* ENABLED written as PublishReady.
StallFairness ==
    /\ WF_vars(SubscribeOk)
    /\ ([]<>~PublishReady \/ []<><<PublishFires>>_vars)
    /\ WF_vars(NodeRuns /\ NodeRecv)
    /\ WF_nodeNextTick(NodeTickFires)
    /\ WF_vars(GhRuns /\ GhRecv)
    /\ WF_ghNextTick(GhTickFires)

SpecStallLive == InitStall /\ [][NextStall]_vars /\ StallFairness

\* A stage downstream of the NodeAggregator has stalled.
DownstreamOfNodeStalled == stalled \in { "storage", "greenhouse" }

\* C17: with a downstream stage stalled for good every upstream stage stays live: the
\* subscriber handles every payload, the NodeAggregator ingests every queued sample
\* and evaluates every due tick, and the GreenhouseAggregator evaluates every due
\* tick; none of them waits for room in a channel.
\* (`stalled` never changes, so "whenever P holds, ~P follows" is []<>~P.)
C17_UpstreamStaysLive ==
    /\ []<>(stalled # "none" => ~PublishPending)
    /\ []<>(DownstreamOfNodeStalled => rx_decoded = <<>>)
    /\ []<>(DownstreamOfNodeStalled => ~NodeTickDue)
    /\ []<>(stalled = "storage" => ~GhTickDue)

\* With the StorageWriter stuck in its first flush and both its channels full, the
\* NodeAggregator and the GreenhouseAggregator have handled their 130th tick.
C17_Witness ==
    /\ stalled = "storage"
    /\ store_pc = "flushing"
    /\ Len(rx_nodeavg_for_db) = 128
    /\ Len(rx_ghavg_for_db) = 64
    /\ nodeTickLog.n = 130
    /\ ghTickLog.n = 130
    /\ ~NodeTickDue /\ ~GhTickDue
    /\ rx_decoded = <<>>

-----------------------------------------------------------------------------
(* Claims about the reconnect loop (SpecDecode) *)

\* The k-th backoff wait of a run, in ms.
KthWait(k) == Min(BACKOFF_INIT_MS * Pow2(k - 1), BACKOFF_MAX_MS)

\* The sleep completed last was the k-th and lasted KthWait(k); the backoff held for
\* the next one is KthWait(k + 1).
WaitsDouble ==
    /\ sleepLog.k >= 1 =>
          /\ sleepLog.ms = KthWait(sleepLog.k)
          /\ sleepLog.ms >= BACKOFF_INIT_MS
          /\ sleepLog.ms <= BACKOFF_MAX_MS
    /\ backoff_ms = KthWait(sleepLog.k + 1)

\* A transport failure leads to the sleep and nowhere else; the loop reconnects only
\* out of a completed sleep of the current backoff; a success leaves the backoff alone.
SleepsBeforeReconnect ==
    /\ (sub_pc # "sleep" /\ sub_pc' = "sleep") =>
          /\ sleepLog' = sleepLog
          /\ backoff_ms' = backoff_ms
    /\ sub_pc = "sleep" =>
          /\ sub_pc' = "connect"
          /\ sleepLog'.k = sleepLog.k + 1
          /\ sleepLog'.ms = backoff_ms
    /\ sub_pc # "sleep" => (sleepLog' = sleepLog /\ backoff_ms' = backoff_ms)
    /\ (sub_pc = "connect" /\ sub_pc' = "poll") => backoff_ms' = backoff_ms

\* C21: every transport failure (subscribe error or event-loop error) is followed by
\* a wait of the current backoff before the reconnect; the k-th wait of a run lasts
\* min(250 * 2^(k-1), 10000) ms, so every wait lies in [250, 10000] ms.
C21_BackoffDoublesCapped == []WaitsDouble /\ [][SleepsBeforeReconnect]_vars

\* The 7th wait, the first capped one, after a payload was handled in between.
C21_Witness ==
    /\ sleepLog.k = 7
    /\ sleepLog.ms = BACKOFF_MAX_MS
    /\ lastPublish.n >= 1
    /\ sub_pc = "connect"

-----------------------------------------------------------------------------
(* Claims about the wire layout (SpecDecode) *)

\* The byte offset of every field, per variant, as the layout tables state them.
StandardOffsets ==
    [ greenhouse_id |-> 0, node_id |-> 2,
      air_temp_c |-> 4, leaf_temp_c |-> 8, bag_temp_c |-> 12, air_rh_pct |-> 16,
      bag_rh1_pct |-> 20, bag_rh2_pct |-> 24, bag_rh3_pct |-> 28, bag_rh4_pct |-> 32,
      bag_rh_avg_pct |-> 36, par_value |-> 40, weight_g |-> 42,
      ea_air_kpa |-> 44, ea_leaf_kpa |-> 48, es_kpa |-> 52, vpd_kpa |-> 56 ]

OutdoorOffsets ==
    [ greenhouse_id |-> 0, node_id |-> 2, air_temp_c |-> 4, air_rh_pct |-> 8,
      par_value |-> 12, ea_air_kpa |-> 14, es_kpa |-> 18 ]

WireU16Fields == { "greenhouse_id", "node_id", "par_value", "weight_g" }

\* The unsigned integer whose little-endian bytes are p[o .. o+n-1] (o 0-based).
RECURSIVE LeUint(_, _, _)
LeUint(p, o, n) == IF n = 0 THEN 0 ELSE p[o + 1] + 256 * LeUint(p, o + 1, n - 1)

\* The little-endian interpretation of the field at offset o: a u16, or the sign,
\* exponent and fraction bits of an IEEE-754 single.
LeField(p, o, name) ==
    IF name \in WireU16Fields THEN LeUint(p, o, 2)
    ELSE LET top  == LeUint(p, o + 2, 2)     \* bits 16..31 of the word
             low3 == LeUint(p, o, 3)         \* bits 0..23 of the word
         IN  [ sign |-> top \div 32768,
               exp  |-> (top \div 128) % 256,
               mant |-> low3 % 8388608 ]

\* The decoded sample d of payload p has exactly the fields of `offsets`, each the
\* little-endian reading at its offset.
ReadsAtOffsets(p, d, offsets) ==
    /\ DOMAIN d.f = DOMAIN offsets
    /\ \A name \in DOMAIN offsets : d.f[name] = LeField(p, offsets[name], name)

\* Every payload the decoder accepted was read at the offsets of its variant.
DecodedAtOffsets ==
    (lastPublish.n >= 1 /\ IsSome(lastPublish.res)) =>
        LET p == lastPublish.payload
            d == lastPublish.res.val
        IN  /\ d.variant = "Standard" => ReadsAtOffsets(p, d, StandardOffsets)
            /\ d.variant = "Outdoor"  => ReadsAtOffsets(p, d, OutdoorOffsets)

\* A record with a value of its own in every field of the layout: field i holds the
\* u16 258 * i + 1 or the f32 with exponent 120 + i and fraction 70000 * i + i.
DistinctRecord(layout) ==
    [ name \in LayoutNames(layout) |->
        LET i == CHOOSE j \in 1..Len(layout) : layout[j][1] = name
        IN  IF layout[i][2] = "u16" THEN 258 * i + 1
            ELSE [ sign |-> i % 2, exp |-> 120 + i, mant |-> 70000 * i + i ] ]

\* Decoding what the matching encoder built returns the encoded values.
RoundTrip(variant, layout, rec) ==
    decode_payload(EncodeLayout(layout, 1, rec)).res = Some([ variant |-> variant, f |-> rec ])

EncoderRoundTrips ==
    /\ RoundTrip("Standard", StandardLayout, DistinctRecord(StandardLayout))
    /\ RoundTrip("Outdoor", OutdoorLayout, DistinctRecord(OutdoorLayout))
    /\ \A v \in { F32_20, F32_NaN, F32_Inf } :
          /\ RoundTrip("Standard", StandardLayout, Reading(StandardLayout, 1, 1, v, F32_22))
          /\ RoundTrip("Outdoor", OutdoorLayout,
                       Reading(OutdoorLayout, 1, OUTDOOR_NODE_ID, v, F32_22))

\* C22: every field of a decoded Standard (60-byte) or Outdoor (22-byte) sample is
\* the little-endian value of the bytes at its fixed offset, and decoding a buffer
\* built by the matching encoder gives back the encoded values.
C22_FieldsAtOffsetsLittleEndian == DecodedAtOffsets /\ EncoderRoundTrips

\* A 60-byte payload was decoded; its PAR is the u16 of bytes 40 and 41 (27, 34).
C22_Witness ==
    /\ lastPublish.n >= 1
    /\ Len(lastPublish.payload) = 60
    /\ IsSome(lastPublish.res)
    /\ lastPublish.res.val.f["par_value"] = 27 + 256 * 34
    /\ lastPublish.res.val.f["vpd_kpa"] = LeField(lastPublish.payload, 56, "vpd_kpa")

-----------------------------------------------------------------------------
(* SpecBurst: one node reports once, then floods the NodeAggregator *)

\* The node sends at most this many payloads in a run: two more than a window holds.
BurstMaxPublished == 66

\* The payloads sent before the burst.
BurstEarly == 1

\* The instant of the burst.
BurstAt == 50

BurstMaxTime == 120

\* The NodeAggregator keeps up with the node: at most this many samples are queued.
BurstMaxQueued == 2

\* The reading the node repeats in the burst.
BurstReading == EncodeLayout(StandardLayout, 1, Reading(StandardLayout, 1, 1, F32_20, F32_22))

\* The node's payloads: the 60-byte reading, and a 22-byte one carrying the same ids.
BurstPayloads ==
    { BurstReading, EncodeLayout(OutdoorLayout, 1, Reading(OutdoorLayout, 1, 1, F32_22, F32_20)) }

\* eventloop.poll() delivers a Publish: up to BurstEarly of them at the start, of
\* either length, the rest at BurstAt, all of them the 60-byte reading.
BurstPublish(p) ==
    /\ now <= BurstAt
    /\ now < BurstAt => lastPublish.n < BurstEarly
    /\ now = BurstAt => p = BurstReading
    /\ Len(rx_decoded) < BurstMaxQueued
    /\ PollPublishUpTo(p, BurstMaxPublished)

\* Time passes to the burst, and then from timer deadline to timer deadline, once the
\* NodeAggregator has nothing ready to handle.
BurstAdvance ==
    /\ ~NodeTickDue
    /\ rx_decoded = <<>>
    /\ AdvanceClock((IF now < BurstAt THEN BurstAt ELSE nodeNextTick) - now, BurstMaxTime)
    /\ UNCHANGED << subVars, rx_decoded, nodeVars,
                    rx_nodeavg_for_db, rx_nodeavg_for_gh, ghVars, rx_ghavg_for_db, storeVars, envSent, stalled >>

NextBurst ==
    \/ SubscribeOk
    \/ \E p \in BurstPayloads : BurstPublish(p)
    \/ NodeRecv
    \/ NodeTick
    \/ BurstAdvance

SpecBurst == Init /\ [][NextBurst]_vars

-----------------------------------------------------------------------------
(* Claims about the sample cap (SpecBurst) *)

\* s is what is left of t after entries were removed from its front.
IsSuffix(s, t) == Len(s) <= Len(t) /\ s = SubSeq(t, Len(t) - Len(s) + 1, Len(t))

\* Every window holds at most 64 samples, in the order of their arrival instants.
WindowsCappedAndOrdered ==
    \A key \in DOMAIN nodes :
        LET buf == nodes[key].buf
        IN  /\ Len(buf) <= MAX_SAMPLES_PER_NODE
            /\ \A i \in 1..(Len(buf) - 1) : buf[i].at <= buf[i + 1].at

\* An arrival is filed at the back of its window and stays there; whatever left the
\* window with it left from the front, and a full window of samples in range loses
\* exactly its oldest one.
ArrivalEvictsOldest ==
    (rx_decoded # <<>> /\ rx_decoded' = Tail(rx_decoded)) =>
        LET msg == Head(rx_decoded)
            key == << msg.f["greenhouse_id"], msg.f["node_id"] >>
            old == IF key \in DOMAIN nodes THEN nodes[key].buf ELSE <<>>
            new == nodes'[key].buf
            s   == [ at |-> now, data |-> msg ]
        IN  /\ new # <<>>
            /\ new[Len(new)] = s
            /\ IsSuffix(new, Append(old, s))
            /\ (Len(old) = MAX_SAMPLES_PER_NODE /\ now - Head(old).at <= WINDOW)
                  => new = Append(Tail(old), s)

\* C23: a NodeWindow never holds more than 64 samples, its samples are in arrival
\* order, and an arrival over the cap removes the oldest entries, never the arrival.
C23_WindowCapEvictsOldest == []WindowsCappedAndOrdered /\ [][ArrivalEvictsOldest]_vars

\* All 66 payloads were ingested within 50 s: the window holds the 64 of the burst,
\* the two early samples having been removed by the cap alone.
C23_Witness ==
    /\ lastPublish.n = BurstMaxPublished
    /\ rx_decoded = <<>>
    /\ now = BurstAt
    /\ << 1, 1 >> \in DOMAIN nodes
    /\ Len(nodes[<< 1, 1 >>].buf) = MAX_SAMPLES_PER_NODE
    /\ Head(nodes[<< 1, 1 >>].buf).at = BurstAt

-----------------------------------------------------------------------------
(* Claims about a window's kind (SpecNode) *)

\* Every window is filed under its own ids.
WindowKeyedByIds == \A key \in DOMAIN nodes : nodes[key].ids = key

\* A known key stays known with the kind and ids it has; a key becomes known only by
\* an arrival, with the variant and the ids of that first sample.
KindFixedAtFirstSight ==
    /\ \A key \in DOMAIN nodes :
          /\ key \in DOMAIN nodes'
          /\ nodes'[key].kind = nodes[key].kind
          /\ nodes'[key].ids = nodes[key].ids
    /\ \A key \in DOMAIN nodes' \ DOMAIN nodes :
          /\ rx_decoded # <<>>
          /\ rx_decoded' = Tail(rx_decoded)
          /\ key = << Head(rx_decoded).f["greenhouse_id"], Head(rx_decoded).f["node_id"] >>
          /\ nodes'[key].kind = Head(rx_decoded).variant
          /\ nodes'[key].ids = key

\* C24: a NodeWindow keeps the variant kind of the first sample seen for its key,
\* whatever variant later samples of that key carry, and its ids never change.
C24_KindFixedAtFirstSight == []WindowKeyedByIds /\ [][KindFixedAtFirstSight]_vars

\* The window of node (1, 1) was opened by a Standard sample and now also holds an
\* Outdoor sample carrying the same ids.
C24_Witness ==
    /\ << 1, 1 >> \in DOMAIN nodes
    /\ nodes[<< 1, 1 >>].kind = "Standard"
    /\ Len(nodes[<< 1, 1 >>].buf) = 2
    /\ nodes[<< 1, 1 >>].buf[1].data.variant = "Standard"
    /\ nodes[<< 1, 1 >>].buf[2].data.variant = "Outdoor"

-----------------------------------------------------------------------------
(* Claims about the empty-window policy (SpecNode) *)

\* The NodeAvgs of key among the entries of q.
OfKey(q, key) == SelectSeq(q, LAMBDA na : NodeKey(na) = key)

\* A tick sends nothing for a known key whose window is empty after the prune, to
\* either destination, and one NodeAvg for a key whose window is not, whether or not
\* an earlier tick skipped that key; every key it knew it still knows.
TickSkipsEmptyWindow ==
    nodeTickLog'.n = nodeTickLog.n + 1 =>
        \A key \in DOMAIN nodes :
            /\ key \in DOMAIN nodes'
            /\ nodes'[key].buf = PruneFront(nodes[key].buf, now)
            /\ Len(OfKey(rx_nodeavg_for_db', key)) - Len(OfKey(rx_nodeavg_for_db, key))
                  = (IF nodes'[key].buf = <<>> THEN 0 ELSE 1)
            /\ Len(OfKey(rx_nodeavg_for_gh', key)) - Len(OfKey(rx_nodeavg_for_gh, key))
                  = (IF nodes'[key].buf = <<>> THEN 0 ELSE 1)
            /\ Len(OfKey(nodeTickLog'.out, key)) = (IF nodes'[key].buf = <<>> THEN 0 ELSE 1)

\* No NodeAvg in flight carries every field absent for want of samples: each was
\* built from a non-empty window.
NoSnapshotOfEmptyWindow ==
    NodeTicked =>
        \A i \in 1..Len(nodeTickLog.out) :
            nodeTickLog.post[NodeKey(nodeTickLog.out[i])].buf # <<>>

\* C25: at a NodeAggregator tick a known key whose window is empty after pruning
\* sends no NodeAvg to either destination; the key stays known and emits again at
\* the first tick that finds samples in its window.
C25_EmptyWindowSkipped == []NoSnapshotOfEmptyWindow /\ [][TickSkipsEmptyWindow]_vars

\* The first tick, handled at 65 s, found the only sample of node (1, 1) stale:
\* the window emptied, nothing was sent, and the key is still known.
C25_Witness ==
    /\ nodeTickLog.n = 1
    /\ << 1, 1 >> \in DOMAIN nodeTickLog.pre
    /\ nodeTickLog.pre[<< 1, 1 >>].buf # <<>>
    /\ << 1, 1 >> \in DOMAIN nodes
    /\ nodes[<< 1, 1 >>].buf = <<>>
    /\ nodeTickLog.out = <<>>
    /\ rx_nodeavg_for_db = <<>>
    /\ rx_nodeavg_for_gh = <<>>

-----------------------------------------------------------------------------
(* Claims about the flush timestamp (SpecFlush) *)

\* The first entry of the batch for the node of bn[i] / the greenhouse of bg[i] whose
\* row of field `key` was written; in a flush no statement of which fails, the first
\* entry for that node / greenhouse.
FirstWrittenNode(f, bn, i, key) ==
    CHOOSE j \in 1..i :
        /\ NodeKey(bn[j]) = NodeKey(bn[i]) /\ NodeRowWritten(f, j, key)
        /\ \A l \in 1..(j - 1) : ~(NodeKey(bn[l]) = NodeKey(bn[i]) /\ NodeRowWritten(f, l, key))

FirstWrittenGh(f, bg, i, key) ==
    CHOOSE j \in 1..i :
        /\ bg[j].greenhouse_id = bg[i].greenhouse_id /\ GhRowWritten(f, j, key)
        /\ \A l \in 1..(j - 1) :
              ~(bg[l].greenhouse_id = bg[i].greenhouse_id /\ GhRowWritten(f, l, key))

\* Every row a flush adds carries the one timestamp read when the flush ran, so it
\* adds at most one row per owner and sensor kind.
OneStampPerFlush ==
    FlushReturns =>
        LET addedN == DOMAIN db'.node_values \ DOMAIN db.node_values
            addedG == DOMAIN db'.greenhouse_average \ DOMAIN db.greenhouse_average
        IN  /\ flushLog'.ts = now * 1000
            /\ \A k \in addedN \cup addedG : k[1] = flushLog'.ts
            /\ \A k1, k2 \in addedN : (k1[2] = k2[2] /\ k1[3] = k2[3]) => k1 = k2
            /\ \A k1, k2 \in addedG : (k1[2] = k2[2] /\ k1[3] = k2[3]) => k1 = k2

\* The row a flush adds for an owner and a sensor kind holds the value (and, for a
\* greenhouse, the node count) of the first snapshot of that owner in the batch whose
\* row was written: the first snapshot of that owner when no statement fails.
FirstSnapshotStored ==
    (FlushReturns /\ ~Aborted(flushLog'.faults)) =>
        LET f  == flushLog'.faults
            ts == flushLog'.ts
            bn == flushing.bn
            bg == flushing.bg
        IN  /\ \A i \in 1..Len(bn) : \A key \in AvgFieldSet :
                  (NodeRowWritten(f, i, key)
                     /\ NodeRowKey(db', ts, bn[i], key) \notin DOMAIN db.node_values)
                  => LET j == FirstWrittenNode(f, bn, i, key)
                     IN  /\ db'.node_values[NodeRowKey(db', ts, bn[i], key)].value
                               = r2(bn[j].f[key])
                         /\ f = {} => \A l \in 1..(j - 1) : NodeKey(bn[l]) # NodeKey(bn[i])
            /\ \A i \in 1..Len(bg) : \A key \in AvgFieldSet :
                  (GhRowWritten(f, i, key)
                     /\ GhRowKey(db', ts, bg[i], key) \notin DOMAIN db.greenhouse_average)
                  => LET j == FirstWrittenGh(f, bg, i, key)
                         row == db'.greenhouse_average[GhRowKey(db', ts, bg[i], key)]
                     IN  /\ row.value = r2(bg[j].f[key])
                         /\ row.nodes = bg[j].nodes
                         /\ f = {} => \A l \in 1..(j - 1) :
                                         bg[l].greenhouse_id # bg[i].greenhouse_id

-----------------------------------------------------------------------------
(* Claims about the flush in progress (SpecStall) *)

\* Flushes started and not yet returned: one while the task awaits its flush, with
\* the batch it took and empty buffers, and none otherwise.
OneFlushOutstanding ==
    /\ store_pc = "flushing" =>
          /\ storeLog.n = flushLog.n + 1
          /\ flushing.bn # <<>> \/ flushing.bg # <<>>
          /\ batch_nodes = <<>> /\ batch_gh = <<>>
    /\ store_pc # "flushing" =>
          /\ storeLog.n = flushLog.n
          /\ flushing = [ bn |-> <<>>, bg |-> <<>> ]

\* During a step the producer appended one message to q, or nothing: nothing was
\* taken from it, and nothing was added to it when it held cap messages.
OnlyArrivals(q, r, cap) ==
    \/ r = q
    \/ Len(q) < cap /\ Len(r) = Len(q) + 1 /\ SubSeq(r, 1, Len(q)) = q

\* While a flush runs the task receives nothing and handles no timer tick: its
\* buffers, its timer and its channels' fronts stay, arrivals queue up behind or are
\* dropped; the only step of the task is the return of that flush, the one started
\* last, with the batch it took.
WriterAwaitsFlush ==
    store_pc = "flushing" =>
        /\ UNCHANGED << batch_nodes, batch_gh, storeNextTick, storeLog >>
        /\ OnlyArrivals(rx_nodeavg_for_db, rx_nodeavg_for_db', NODEAVG_CAP)
        /\ OnlyArrivals(rx_ghavg_for_db, rx_ghavg_for_db', GHAVG_CAP)
        /\ \/ UNCHANGED << store_pc, flushing, db, flushLog >>
           \/ /\ store_pc' = "select"
              /\ flushLog'.n = storeLog.n
              /\ db' = flush_batch(db, flushing.bn, flushing.bg, flushLog'.ts, flushLog'.faults)

\* C27: at most one flush is in progress; while it runs the StorageWriter receives no
\* snapshot and handles no timer tick, flushes run in the order their batches were
\* taken, and snapshots arriving meanwhile wait in the bounded channels or are
\* dropped by their producer when those are full.
C27_OneFlushAtATime == []OneFlushOutstanding /\ [][WriterAwaitsFlush]_vars

\* The first flush has not returned: the NodeAvgs emitted since wait in the channel,
\* which is full, and the one of the last tick was dropped by the NodeAggregator.
C27_Witness ==
    /\ store_pc = "flushing"
    /\ storeLog.n = 1
    /\ flushLog.n = 0
    /\ Len(rx_nodeavg_for_db) = NODEAVG_CAP
    /\ rx_ghavg_for_db # <<>>
    /\ Len(nodeTickLog.out) = 1
    /\ rx_nodeavg_for_db[NODEAVG_CAP] # nodeTickLog.out[1]

-----------------------------------------------------------------------------
(* Claims about the ticks a sample is counted at (SpecNode) *)

NodeTickStep == nodeTickLog'.n = nodeTickLog.n + 1

\* The samples handed to `key` since the last tick.
PushedSince(key) == IF key \in DOMAIN nodeTickLog.pushed THEN nodeTickLog.pushed[key] ELSE 0

\* At a tick step: the samples the tick leaves in key's window that were in it at
\* the previous tick already (the window grows at the back only).
HeldSinceLastTick(key) ==
    LET buf == nodes'[key].buf
    IN  SubSeq(buf, 1, Len(buf) - PushedSince(key))

\* The sample is counted in some mean of a window of kind `kind`.
CountsInMeans(s, kind) ==
    /\ s.data.variant = kind
    /\ \E f \in (IF kind = "Standard" THEN AvgFieldSet ELSE OutdoorAvgFields) :
         f32_as_f64(FieldAsF32(s.data, f)).finite

\* C28 as stated: a sample counted in the means of one tick is not counted again in
\* the means of a later tick.
C28_Original ==
    [][NodeTickStep =>
         \A key \in DOMAIN nodes :
             \A i \in 1..Len(HeldSinceLastTick(key)) :
                 ~CountsInMeans(HeldSinceLastTick(key)[i], nodes[key].kind)]_vars

\* What a tick finds of the window the previous tick left.
LeftByLastTick(key) ==
    IF nodeTickLog.n > 0 /\ key \in DOMAIN nodeTickLog.post
    THEN nodeTickLog.post[key].buf ELSE <<>>

\* C28 (amended): a sample is counted at every tick evaluated while the window
\* retains it: one counted at a tick is counted again at the next tick exactly when
\* it is then at most WINDOW (60 s) old and the 64-sample cap has not evicted it, as
\* is a sample ingested at the instant of a tick; one older than that is counted once.
C28_CountedWhileRetained ==
    [][NodeTickStep =>
         \A key \in DOMAIN nodes :
             LET held  == HeldSinceLastTick(key)
                 young == WithinWindow(LeftByLastTick(key), now)
             IN  /\ IsSuffix(held, young)
                 /\ Len(nodes'[key].buf) < MAX_SAMPLES_PER_NODE => held = young]_vars

\* One payload was published, at 60 s, and ingested before the tick at 60 s; the
\* ticks at 60 s and at 120 s both counted it: two NodeAvgs of 20 degrees.
C28_Witness ==
    /\ lastPublish.n = 1
    /\ nodeTickLog.n = 2
    /\ nodeTickLog.at = 2 * WINDOW
    /\ Len(rx_nodeavg_for_gh) = 2
    /\ \A i \in 1..2 : /\ NodeKey(rx_nodeavg_for_gh[i]) = << 1, 1 >>
                       /\ rx_nodeavg_for_gh[i].at = i * WINDOW
                       /\ rx_nodeavg_for_gh[i].f["air_temp_c"] = Some(Rat(20, 1))
    /\ Len(nodeTickLog.post[<< 1, 1 >>].buf) = 1
    /\ nodeTickLog.post[<< 1, 1 >>].buf[1].at = WINDOW

-----------------------------------------------------------------------------
(* Claims about samples of another variant than their window's kind (SpecBurst) *)

\* The samples of buf whose variant is `kind`.
OfKind(buf, kind) == SelectSeq(buf, LAMBDA s : s.data.variant = kind)

AllAbsent(na) == \A f \in AvgFieldSet : na.f[f] = None

\* A received sample is filed at the back of its key's window whatever its variant,
\* and the cap is taken on the number of samples held, of either variant.
FiledWhateverVariant ==
    (rx_decoded # <<>> /\ rx_decoded' = Tail(rx_decoded)) =>
        LET msg == Head(rx_decoded)
            key == NodeKeyOf(msg)
            old == IF key \in DOMAIN nodes THEN nodes[key].buf ELSE <<>>
            new == nodes'[key].buf
        IN  /\ new # <<>>
            /\ new[Len(new)] = [ at |-> now, data |-> msg ]
            /\ Len(new) = Min(Len(WithinWindow(old, now)) + 1, MAX_SAMPLES_PER_NODE)

\* At the last tick every window left non-empty, by samples of any variant, emitted
\* one NodeAvg: the one its samples of the window's kind yield alone, with every
\* field absent when it holds none of them.
MeansOverOwnKind ==
    NodeTicked =>
        \A key \in DOMAIN nodeTickLog.post :
            LET win == nodeTickLog.post[key]
                own == OfKind(win.buf, win.kind)
                out == OfKey(nodeTickLog.out, key)
            IN  /\ Len(out) = (IF win.buf = <<>> THEN 0 ELSE 1)
                /\ win.buf # <<>> =>
                      /\ out[1] = NodeAvgOf([ win EXCEPT !.buf = own ], nodeTickLog.at)
                      /\ own = <<>> => AllAbsent(out[1])

\* C29: a sample whose variant differs from its window's first-seen kind is appended
\* to the buffer, counting toward the 64-sample cap and toward the window being
\* non-empty, but enters no field mean; a window holding only such samples emits a
\* NodeAvg with every field absent.
C29_MismatchBufferedNotAveraged == []MeansOverOwnKind /\ [][FiledWhateverVariant]_vars

\* The window of node (1,1) was created by a 22-byte payload; the burst of 60-byte
\* payloads filled it to the cap, evicting that first sample, and the tick emitted a
\* NodeAvg with no field.
C29_Witness ==
    /\ nodeTickLog.n = 1
    /\ << 1, 1 >> \in DOMAIN nodeTickLog.post
    /\ nodeTickLog.post[<< 1, 1 >>].kind = "Outdoor"
    /\ Len(nodeTickLog.post[<< 1, 1 >>].buf) = MAX_SAMPLES_PER_NODE
    /\ OfKind(nodeTickLog.post[<< 1, 1 >>].buf, "Outdoor") = <<>>
    /\ Len(nodeTickLog.out) = 1
    /\ AllAbsent(nodeTickLog.out[1])
    /\ rx_nodeavg_for_db = nodeTickLog.out

-----------------------------------------------------------------------------
(* Claims about a stored NodeAvg that is not replaced (SpecGh) *)

GhTickStep == ghTickLog'.n = ghTickLog.n + 1

\* The age of the stored NodeAvg of entry e = (greenhouse id, node id) of state m at t.
AgeOf(m, e, t) == t - m[e[1]].nodes[e[2]].at

\* No stored NodeAvg has been counted at more than two ticks.
UsedAtMostTwice == \A e \in DOMAIN ghTickLog.used : ghTickLog.used[e] <= 2

\* The last tick built each greenhouse's GhAvg from the stored NodeAvgs at most 65 s
\* old, and none for a greenhouse without one.
LastTickUsedYoungOnly ==
    GhTicked =>
        \A g \in DOMAIN ghTickLog.pre :
            LET young == { n \in DOMAIN ghTickLog.pre[g].nodes :
                             AgeOf(ghTickLog.pre, << g, n >>, ghTickLog.at) <= 65 }
                out   == SelectSeq(ghTickLog.out, LAMBDA ga : ga.greenhouse_id = g)
            IN  IF young = {} THEN out = <<>>
                ELSE out = << GhAvgOf(g, ghTickLog.pre[g], young) >>

\* A tick counts a stored NodeAvg exactly when it is at most 65 s old then; one that
\* the previous tick found older and that was not replaced since is not counted.
TickCountsYoungOnly ==
    GhTickStep =>
        \A e \in StoredKeys(gh) :
            /\ ghTickLog'.used[e] = ghTickLog.used[e] + (IF AgeOf(gh, e, now) <= 65 THEN 1 ELSE 0)
            /\ ( /\ GhTicked
                 /\ e \in StoredKeys(ghTickLog.pre)
                 /\ ghTickLog.pre[e[1]].nodes[e[2]] = gh[e[1]].nodes[e[2]]
                 /\ AgeOf(ghTickLog.pre, e, ghTickLog.at) > 65 )
                  => ghTickLog'.used[e] = ghTickLog.used[e]

\* No step removes an entry from the greenhouse state.
EntriesKept == StoredKeys(gh) \subseteq StoredKeys(gh')

-----------------------------------------------------------------------------
(* Claims about the backoff over the life of the subscriber (SpecDecode) *)

\* The backoff is at least its initial value, and above it once a wait has completed.
BackoffAboveInitial ==
    /\ backoff_ms >= BACKOFF_INIT_MS
    /\ backoff_ms <= BACKOFF_MAX_MS
    /\ sleepLog.k >= 1 => backoff_ms > BACKOFF_INIT_MS

\* No step lowers the backoff; a successful subscribe and a handled message leave it
\* as it is; each wait is at least as long as the one before; once the backoff is
\* 10 000 ms it stays there and the next wait lasts 10 000 ms.
BackoffNeverReset ==
    /\ backoff_ms' >= backoff_ms
    /\ sub_pc' = "poll" => backoff_ms' = backoff_ms
    /\ backoff_ms = BACKOFF_MAX_MS => backoff_ms' = BACKOFF_MAX_MS
    /\ sleepLog'.k = sleepLog.k + 1 =>
          /\ sleepLog.k >= 1 => sleepLog'.ms >= sleepLog.ms
          /\ backoff_ms = BACKOFF_MAX_MS => sleepLog'.ms = BACKOFF_MAX_MS
          /\ (sleepLog.k >= 1 /\ sleepLog.ms = BACKOFF_MAX_MS) => sleepLog'.ms = BACKOFF_MAX_MS

\* C31: the reconnect backoff is never reset: it never decreases, a successful
\* subscribe or any number of received messages does not return it to 250 ms, and
\* once it has reached 10 000 ms every later reconnect waits 10 000 ms.
C31_BackoffNeverReset == []BackoffAboveInitial /\ [][BackoffNeverReset]_vars

\* After the 8th wait, the second of 10 000 ms, the subscribe succeeded and payloads
\* were handled: the backoff is still 10 000 ms.
C31_Witness ==
    /\ sleepLog.k = 8
    /\ sleepLog.ms = BACKOFF_MAX_MS
    /\ sub_pc = "poll"
    /\ lastPublish.n = MaxPublished
    /\ lastPublish.pc = "poll"
    /\ backoff_ms = BACKOFF_MAX_MS

====
